---- MODULE Spec2Model ----
(***************************************************************************)
(* PPAW backend: image versions, filter links and watermark placements     *)
(* (src/src/models/filterModel.ts, watermarkModel.ts, uploadModel.ts) and   *)
(* the handlers that gate them (src/src/controllers/*.ts).                  *)
(*                                                                         *)
(* The database tables are sets of rows.  Spec runs the handlers one after *)
(* the other (requests that do not overlap); SpecInput answers one         *)
(* POST /images/:imageId/filters drawn from every body of bounded size;    *)
(* SpecTx interleaves the statements of two edit transactions under the    *)
(* store's default isolation (read committed); SpecUpload interleaves the  *)
(* quota check and the insert of two uploads; SpecPlan lets plan changes   *)
(* commit between the checks of an edit handler and its transaction.       *)
(***************************************************************************)
EXTENDS Integers, Sequences, FiniteSets, TLC

VARIABLES
  images,                  \* table images: rows [id, userId, originalUrl, sizeBytes, createdAt]
  imageVersions,           \* table image_versions: rows [id, imageId, createdAt, metadata]
  imageFilters,            \* table image_filters: rows [imageVersionId, filterId, intensity, sortOrder, appliedAt]
  imageVersionWatermarks,  \* table image_version_watermarks: rows [id, imageVersionId, watermarkId, text, position, opacity, font, sortOrder, appliedAt]
  usedVersionIds,          \* uuids already handed out (a uuid is never handed out twice)
  placementSeq,            \* last value of the autoincrement id of image_version_watermarks
  now,                     \* the clock that stamps createdAt / appliedAt
  uploads,                 \* SpecUpload: per request in flight, where uploadImageHandler stands
  overlapped,              \* SpecUpload: some upload began while another was in flight
  tx,                      \* SpecTx, SpecPlan, SpecSub: per connection, the transaction or request it runs
  request,                 \* SpecInput: the request drawn, and the status it was answered with
  editLog,                 \* the edits answered 201, in order: [imageId, versionId, kind, ids, removed]
  subscriptions,           \* table subscriptions: rows [id, userId, planId, status, createdAt, currentPeriodStart, currentPeriodEnd]
  subscriptionPlanFilters, \* table subscription_plan_filters: rows [planId, filterId]
  userProfiles,            \* table user_profiles: the ids of its rows
  payments                 \* table payments: rows [id, userId, subscriptionId, status]

dbvars == <<imageVersions, imageFilters, imageVersionWatermarks>>

(***************************************************************************)
(* Bounds of the model.                                                    *)
(***************************************************************************)
MaxVersions == 3     \* versions created in one behaviour
MaxStack == 3        \* longest filter stack of a request (SpecInput)

VersionIds == 1..MaxVersions

\* requests in flight at once (SpecUpload), connections (SpecTx)
Procs == {1, 2}

\* a request or connection that is doing nothing
Idle == [pc |-> "idle"]

(***************************************************************************)
(* Seed data: the rows the handlers only read.                             *)
(***************************************************************************)
\* table user_profiles as seeded: users 1..4 exist, 5 does not.
UserProfiles == {1, 2, 3, 4}

UserIdInputs == {1, 2, 3, 4, 5}

\* table images at the start.  Image 1 belongs to user 1 (Pro), image 2 to
\* user 2 (Basic), image 3 to user 3 (Free), image 4 to user 4 (no active
\* subscription); image id 5 is not in the table.
SeedImages ==
  { [id |-> u, userId |-> u, originalUrl |-> <<"images", u, u>>, sizeBytes |-> 1,
     createdAt |-> 0] : u \in UserProfiles }

ImageIdInputs == {1, 2, 3, 4, 5}

\* table filters: ids 1..3 exist, 4 does not.
Filters == {1, 2, 3}

FilterIdInputs == {1, 2, 3, 4}

\* table subscriptions as seeded.  User 1: a cancelled Free subscription and an active
\* Pro one; user 2: active Basic; user 3: active Free; user 4: only a
\* cancelled subscription.  A row is created with the period
\* [now, addPeriod(now, plan.period)); cancelling sets currentPeriodEnd to
\* the time of the cancellation.  Every seeded plan is monthly and a month is
\* two ticks of the clock (MonthLength).
Subscriptions ==
  { [id |-> 1, userId |-> 1, planId |-> 1, status |-> "cancelled", createdAt |-> -1,
     currentPeriodStart |-> -1, currentPeriodEnd |-> 0],
    [id |-> 2, userId |-> 1, planId |-> 3, status |-> "active",    createdAt |-> 0,
     currentPeriodStart |-> 0, currentPeriodEnd |-> 2],
    [id |-> 3, userId |-> 2, planId |-> 2, status |-> "active",    createdAt |-> 0,
     currentPeriodStart |-> 0, currentPeriodEnd |-> 2],
    [id |-> 4, userId |-> 3, planId |-> 1, status |-> "active",    createdAt |-> 0,
     currentPeriodStart |-> 0, currentPeriodEnd |-> 2],
    [id |-> 5, userId |-> 4, planId |-> 1, status |-> "cancelled", createdAt |-> -1,
     currentPeriodStart |-> -1, currentPeriodEnd |-> 0] }

\* table subscription_plan_filters as seeded: Free (1) has no filter, Basic (2) has
\* filter 1, Pro (3) has filters 1 and 2.
SubscriptionPlanFilters ==
  { [planId |-> 2, filterId |-> 1],
    [planId |-> 3, filterId |-> 1], [planId |-> 3, filterId |-> 2] }

(***************************************************************************)
(* JSON values of request bodies and plan documents.                       *)
(***************************************************************************)
Undefined == [t |-> "undefined"]
JNull == [t |-> "null"]
\* the number n (half = FALSE) or n + 1/2 (half = TRUE)
JNum(n) == [t |-> "number", n |-> n, half |-> FALSE]
JHalf(n) == [t |-> "number", n |-> n, half |-> TRUE]
JBool(b) == [t |-> "boolean", b |-> b]
\* a string is the sequence of its characters
JStr(chars) == [t |-> "string", s |-> chars]
JArr(items) == [t |-> "array", a |-> items]
JFilterItem(filterId, intensity) == [t |-> "object", filterId |-> filterId, intensity |-> intensity]

\* typeof v === "number" && Number.isInteger(v)
IsIntegerNumber(v) == v.t = "number" /\ ~v.half

Null == [null |-> TRUE]
Some(x) == [null |-> FALSE, v |-> x]

\* String.prototype.trim on a sequence of characters
RECURSIVE TrimStart(_)
TrimStart(s) == IF s # <<>> /\ Head(s) = " " THEN TrimStart(Tail(s)) ELSE s

RECURSIVE TrimEnd(_)
TrimEnd(s) == IF s # <<>> /\ s[Len(s)] = " " THEN TrimEnd(SubSeq(s, 1, Len(s) - 1)) ELSE s

Trim(s) == TrimEnd(TrimStart(s))

SeqToSet(s) == { s[i] : i \in 1..Len(s) }

\* the rows of a table as a sequence ordered by the strict total order Before
OrderBy(rows, Before(_, _)) ==
  CHOOSE s \in [1..Cardinality(rows) -> rows] :
    \A i, j \in 1..Cardinality(rows) : i < j => Before(s[i], s[j])

(***************************************************************************)
(* src/unnamed/part_009 (utils/validators.ts)                              *)
(***************************************************************************)
\* isIntegerBetween without its upper bound (a wrong variant: C9 must fail
\* on it)
isIntegerAtLeast(value, minInclusive, maxInclusive) ==
  /\ value \in Int
  /\ value >= minInclusive

isIntegerBetween(value, minInclusive, maxInclusive) ==
  /\ value \in Int
  /\ value >= minInclusive
  /\ value <= maxInclusive

(***************************************************************************)
(* src/src/controllers/filterController.ts: the request normalisers         *)
(***************************************************************************)
normalizeFilterStack(value) ==
  IF value.t # "array" THEN Null
  ELSE IF \E i \in 1..Len(value.a) :
            \/ value.a[i].t # "object"
            \/ ~IsIntegerNumber(value.a[i].filterId)
            \/ (value.a[i].intensity.t # "undefined" /\ ~IsIntegerNumber(value.a[i].intensity))
       THEN Null
       ELSE Some([i \in 1..Len(value.a) |->
                   [filterId |-> value.a[i].filterId.n, intensity |-> value.a[i].intensity]])

normalizeFilterIds(value) ==
  IF IsIntegerNumber(value) THEN Some(<<value.n>>)
  ELSE IF value.t # "array" THEN Null
  ELSE IF Len(value.a) = 0 THEN Null
  ELSE IF \E i \in 1..Len(value.a) : ~IsIntegerNumber(value.a[i]) THEN Null
  ELSE Some([i \in 1..Len(value.a) |-> value.a[i].n])

\* normalizeIntensities that fills an omitted intensity with 0 (a wrong
\* variant: C26 must fail on it)
normalizeIntensitiesDefaultZero(value, count) ==
  IF value.t = "undefined" THEN Some([i \in 1..count |-> 0])
  ELSE IF IsIntegerNumber(value) THEN Some([i \in 1..count |-> value.n])
  ELSE IF value.t = "array"
       THEN IF Len(value.a) # count THEN Null
            ELSE IF \E i \in 1..Len(value.a) : ~IsIntegerNumber(value.a[i]) THEN Null
            ELSE Some([i \in 1..Len(value.a) |-> value.a[i].n])
  ELSE Null

normalizeIntensities(value, count) ==
  IF value.t = "undefined" THEN Some([i \in 1..count |-> 100])
  ELSE IF IsIntegerNumber(value) THEN Some([i \in 1..count |-> value.n])
  ELSE IF value.t = "array"
       THEN IF Len(value.a) # count THEN Null
            ELSE IF \E i \in 1..Len(value.a) : ~IsIntegerNumber(value.a[i]) THEN Null
            ELSE Some([i \in 1..Len(value.a) |-> value.a[i].n])
  ELSE Null

\* applyFilterHandler, lines 114-142: the stack of a request body, or Null (400)
RequestStack(body) ==
  LET normalizedFilterIds == normalizeFilterIds(body.filterId)
      normalizedIntensities ==
        normalizeIntensities(body.intensity,
                             IF normalizedFilterIds.null THEN 0 ELSE Len(normalizedFilterIds.v))
  IN IF ~normalizedFilterIds.null /\ ~normalizedIntensities.null
     THEN Some([idx \in 1..Len(normalizedFilterIds.v) |->
                 [filterId |-> normalizedFilterIds.v[idx],
                  intensity |-> normalizedIntensities.v[idx]]])
     ELSE LET parsed == normalizeFilterStack(body.filters)
          IN IF parsed.null \/ Len(parsed.v) = 0 THEN Null
             ELSE Some([i \in 1..Len(parsed.v) |->
                         [filterId |-> parsed.v[i].filterId,
                          intensity |-> IF parsed.v[i].intensity.t = "undefined"
                                        THEN 100 ELSE parsed.v[i].intensity.n]])

\* applyFilterHandler, lines 144-156: the first complaint about the stack, item by item
RECURSIVE ValidateStack(_, _, _)
ValidateStack(stack, i, seen) ==
  IF i > Len(stack) THEN "ok"
  ELSE IF ~isIntegerBetween(stack[i].intensity, 0, 100)
       THEN "intensity must be an integer between 0 and 100"
  ELSE IF stack[i].filterId \in seen
       THEN "filters must be unique by filterId"
  ELSE ValidateStack(stack, i + 1, seen \cup {stack[i].filterId})

(***************************************************************************)
(* src/src/models/filterModel.ts                                           *)
(***************************************************************************)
\* findFirst({ where: { userId, status: "active" }, orderBy: [createdAt desc, id desc] })
FindActiveSubscription(userId) ==
  LET rows == { s \in subscriptions : s.userId = userId /\ s.status = "active" }
  IN IF rows = {} THEN Null
     ELSE Some(CHOOSE s \in rows : \A o \in rows \ {s} :
                 \/ s.createdAt > o.createdAt
                 \/ (s.createdAt = o.createdAt /\ s.id > o.id))

canUserUseFilter(userId, filterId) ==
  LET active == FindActiveSubscription(userId)
  IN IF active.null THEN "NO_ACTIVE_SUBSCRIPTION"
     ELSE IF ~\E l \in subscriptionPlanFilters :
                l.planId = active.v.planId /\ l.filterId = filterId
          THEN "FILTER_NOT_ALLOWED"
     ELSE "ok"

getImageById(id) ==
  IF \E img \in images : img.id = id
  THEN Some(CHOOSE img \in images : img.id = id) ELSE Null

getFilterById(id) == IF id \in Filters THEN Some(id) ELSE Null

\* orderBy: [{ appliedAt: "asc" }, { filterId: "asc" }]
FilterLinkBefore(a, b) ==
  \/ a.appliedAt < b.appliedAt
  \/ (a.appliedAt = b.appliedAt /\ a.filterId < b.filterId)

\* orderBy: [{ createdAt: "desc" }, { id: "desc" }]
VersionNewerById(a, b) ==
  \/ a.createdAt > b.createdAt
  \/ (a.createdAt = b.createdAt /\ a.id > b.id)

\* NewFilterRows with sortOrder counted from 1 (a wrong variant: C2
\* must fail on it)
NewFilterRowsFromOne(versionId, filters, ts) ==
  { [imageVersionId |-> versionId,
     filterId |-> filters[idx].filterId,
     intensity |-> filters[idx].intensity,
     sortOrder |-> idx,
     appliedAt |-> ts] : idx \in 1..Len(filters) }

\* applyFiltersToImage, lines 100-109: the rows createMany inserts
NewFilterRows(versionId, filters, ts) ==
  { [imageVersionId |-> versionId,
     filterId |-> filters[idx].filterId,
     intensity |-> filters[idx].intensity,
     sortOrder |-> idx - 1,
     appliedAt |-> ts] : idx \in 1..Len(filters) }

\* StaleFilterRows without the scope imageVersion: { imageId } (a wrong
\* variant: C19 must fail on it)
StaleFilterRowsAnyImage(versions, rows, imageId, versionId) ==
  { r \in rows : r.imageVersionId # versionId }

\* applyFiltersToImage, lines 113-120: the rows deleteMany removes
StaleFilterRows(versions, rows, imageId, versionId) ==
  { r \in rows : /\ r.imageVersionId # versionId
                 /\ \E v \in versions : v.id = r.imageVersionId /\ v.imageId = imageId }

\* applyFiltersToImage that answers an edit equal to the image's latest one
\* with the version it already has (a wrong variant: C21 must fail on it)
applyFiltersToImageIdempotent(versions, rows, input, versionId, ts) ==
  LET mine == { v \in versions : v.imageId = input.imageId }
      same == { v \in mine : /\ \A o \in mine \ {v} : VersionNewerById(v, o)
                              /\ v.metadata = input.metadata }
      version == [id |-> versionId, imageId |-> input.imageId,
                  editedUrl |-> input.editedUrl,
                  createdAt |-> ts, metadata |-> input.metadata]
      versions1 == versions \cup {version}
      rows1 == rows \cup NewFilterRows(versionId, input.filters, ts)
      rows2 == rows1 \ StaleFilterRows(versions1, rows1, input.imageId, versionId)
  IN IF same # {}
     THEN LET kept == CHOOSE v \in same : TRUE
          IN [ok |-> TRUE, imageVersions |-> versions, imageFilters |-> rows,
              version |-> kept,
              links |-> OrderBy({ r \in rows : r.imageVersionId = kept.id }, FilterLinkBefore)]
     ELSE [ok |-> TRUE, imageVersions |-> versions1, imageFilters |-> rows2,
           version |-> version,
           links |-> OrderBy({ r \in rows2 : r.imageVersionId = versionId }, FilterLinkBefore)]

\* applyFiltersToImage as one transaction on the tables: the tables it
\* commits and what it returns; a unique violation on
\* (imageVersionId, filterId) aborts it and nothing is written.
applyFiltersToImage(versions, rows, input, versionId, ts) ==
  LET version == [id |-> versionId, imageId |-> input.imageId,
                  editedUrl |-> input.editedUrl,
                  createdAt |-> ts, metadata |-> input.metadata]
      versions1 == versions \cup {version}
      created == NewFilterRows(versionId, input.filters, ts)
      rows1 == rows \cup created
      rows2 == rows1 \ StaleFilterRows(versions1, rows1, input.imageId, versionId)
      links == OrderBy({ r \in rows2 : r.imageVersionId = versionId }, FilterLinkBefore)
  IN IF Cardinality({ input.filters[i].filterId : i \in 1..Len(input.filters) }) # Len(input.filters)
     THEN [ok |-> FALSE, imageVersions |-> versions, imageFilters |-> rows]
     ELSE [ok |-> TRUE, imageVersions |-> versions1, imageFilters |-> rows2,
           version |-> version, links |-> links]

getLatestFiltersForImage(versions, rows, imageId) ==
  LET mine == { v \in versions : v.imageId = imageId }
  IN IF mine = {} THEN <<>>
     ELSE LET latestVersion == CHOOSE v \in mine : \A o \in mine \ {v} : VersionNewerById(v, o)
          IN OrderBy({ r \in rows : r.imageVersionId = latestVersion.id }, FilterLinkBefore)

\* listFilterHistoryForImage with orderBy ascending (a wrong variant: C13
\* must fail on it)
listFilterHistoryForImageOldestFirst(versions, imageId) ==
  LET OlderById(a, b) == VersionNewerById(b, a)
  IN OrderBy({ v \in versions : v.imageId = imageId }, OlderById)

listFilterHistoryForImage(versions, imageId) ==
  OrderBy({ v \in versions : v.imageId = imageId }, VersionNewerById)

\* MetadataWithoutFilter that rewrites filters and leaves filterIds as it was
\* (a wrong variant: C14 must fail on it)
MetadataWithoutFilterKeepingIds(md, filterId) ==
  IF "filters" \in DOMAIN md
  THEN LET IsKept(f) == f.filterId # filterId
       IN [md EXCEPT !.filters = SelectSeq(md.filters, IsKept)]
  ELSE md

\* deleteLatestFilterFromImage, lines 196-219: the metadata of the latest
\* version without the removed filter
MetadataWithoutFilter(md, filterId) ==
  IF "filters" \in DOMAIN md
  THEN LET IsKept(f) == f.filterId # filterId
           nextFilters == SelectSeq(md.filters, IsKept)
       IN [md EXCEPT !.filters = nextFilters,
                     !.filterIds = [i \in 1..Len(nextFilters) |-> nextFilters[i].filterId]]
  ELSE md

\* deleteLatestFilterFromImage as one transaction: null (found = FALSE) when the
\* image has no version or its latest version has no link to the filter
deleteLatestFilterFromImage(versions, rows, imageId, filterId) ==
  LET mine == { v \in versions : v.imageId = imageId }
      unchanged == [found |-> FALSE, imageVersions |-> versions, imageFilters |-> rows]
  IN IF mine = {} THEN unchanged
     ELSE LET latestVersion == CHOOSE v \in mine : \A o \in mine \ {v} : VersionNewerById(v, o)
              latest == { r \in rows : r.imageVersionId = latestVersion.id /\ r.filterId = filterId }
          IN IF latest = {} THEN unchanged
             ELSE [found |-> TRUE,
                   imageFilters |-> rows \ latest,
                   imageVersions |->
                     (versions \ {latestVersion}) \cup
                     { [latestVersion EXCEPT
                          !.metadata = MetadataWithoutFilter(latestVersion.metadata, filterId)] }]

(***************************************************************************)
(* src/unnamed/part_001 (models/featureAccessModel.ts)                     *)
(***************************************************************************)
\* table subscription_plans.  Plans 4 to 8 are plans no user starts on; their
\* features documents hold the watermark flag in the other shapes a JSON
\* column can have: missing, null, a number, and strings that are not "true".
SubscriptionPlans ==
  { [id |-> 1, name |-> "Free", period |-> "monthly",
     limitsJson |-> [max_images_month |-> JNum(2), max_storage_mb |-> JNum(1)],
     featuresJson |-> [watermark |-> JBool(FALSE), ai_enhancement |-> Undefined]],
    [id |-> 2, name |-> "Basic", period |-> "monthly",
     limitsJson |-> [max_images_month |-> JHalf(2), max_storage_mb |-> Undefined],
     featuresJson |-> [watermark |-> JStr(<<" ", "T", "r", "u", "e">>), ai_enhancement |-> JNull]],
    [id |-> 3, name |-> "Pro", period |-> "monthly",
     limitsJson |-> [max_images_month |-> JStr(<<"3">>), max_storage_mb |-> JNull],
     featuresJson |-> [watermark |-> JBool(TRUE), ai_enhancement |-> JBool(TRUE)]],
    [id |-> 4, name |-> "Trial", period |-> "monthly",
     limitsJson |-> [max_images_month |-> Undefined, max_storage_mb |-> Undefined],
     featuresJson |-> [watermark |-> Undefined, ai_enhancement |-> Undefined]],
    [id |-> 5, name |-> "Legacy", period |-> "monthly",
     limitsJson |-> [max_images_month |-> Undefined, max_storage_mb |-> Undefined],
     featuresJson |-> [watermark |-> JNull, ai_enhancement |-> Undefined]],
    [id |-> 6, name |-> "Team", period |-> "monthly",
     limitsJson |-> [max_images_month |-> Undefined, max_storage_mb |-> Undefined],
     featuresJson |-> [watermark |-> JNum(1), ai_enhancement |-> Undefined]],
    [id |-> 7, name |-> "Studio", period |-> "monthly",
     limitsJson |-> [max_images_month |-> Undefined, max_storage_mb |-> Undefined],
     featuresJson |-> [watermark |-> JStr(<<"y", "e", "s">>), ai_enhancement |-> Undefined]],
    [id |-> 8, name |-> "Student", period |-> "monthly",
     limitsJson |-> [max_images_month |-> Undefined, max_storage_mb |-> Undefined],
     featuresJson |-> [watermark |-> JStr(<<"F", "A", "L", "S", "E", " ">>),
                       ai_enhancement |-> Undefined]] }

PlanById(planId) == CHOOSE p \in SubscriptionPlans : p.id = planId

\* String.prototype.toLowerCase on the letters the flags use
LowerChar(c) ==
  CASE c = "T" -> "t" [] c = "R" -> "r" [] c = "U" -> "u" [] c = "E" -> "e"
    [] c = "F" -> "f" [] c = "A" -> "a" [] c = "L" -> "l" [] c = "S" -> "s"
    [] OTHER -> c

toLowerCase(s) == [i \in 1..Len(s) |-> LowerChar(s[i])]

\* toOptionalBoolean that takes every string but "false" for true (a wrong
\* variant: C16 must fail on it)
toOptionalBooleanTruthy(value) ==
  IF value.t = "null" \/ value.t = "undefined" THEN Null
  ELSE IF value.t = "boolean" THEN Some(value.b)
  ELSE IF value.t = "string"
       THEN Some(toLowerCase(Trim(value.s)) # <<"f", "a", "l", "s", "e">>)
  ELSE Null

\* boolean | null: Some(TRUE), Some(FALSE) or Null
toOptionalBoolean(value) ==
  IF value.t = "null" \/ value.t = "undefined" THEN Null
  ELSE IF value.t = "boolean" THEN Some(value.b)
  ELSE IF value.t = "string"
       THEN LET v == toLowerCase(Trim(value.s))
            IN IF v = <<"t", "r", "u", "e">> THEN Some(TRUE)
               ELSE IF v = <<"f", "a", "l", "s", "e">> THEN Some(FALSE)
               ELSE Null
  ELSE Null

parseFeaturesJson(value) ==
  IF value.t # "object" THEN [watermark |-> Null, aiEnhancement |-> Null]
  ELSE [watermark |-> toOptionalBoolean(value.o.watermark),
        aiEnhancement |-> toOptionalBoolean(value.o.ai_enhancement)]

getUserPlanFeatures(userId) ==
  LET active == FindActiveSubscription(userId)
  IN IF active.null THEN [ok |-> FALSE, reason |-> "NO_ACTIVE_SUBSCRIPTION"]
     ELSE [ok |-> TRUE,
           plan |-> [id |-> active.v.planId, name |-> PlanById(active.v.planId).name],
           features |-> parseFeaturesJson([t |-> "object", o |-> PlanById(active.v.planId).featuresJson])]

(***************************************************************************)
(* src/src/models/watermarkModel.ts                                        *)
(***************************************************************************)
\* table watermarks (presets): 1 and 2 have a text, 3 has a blank text, 4 does
\* not exist; preset 2 has no font.
Watermarks ==
  { [id |-> 1, userId |-> 1, text |-> <<"A">>, position |-> "bottom-right", opacity |-> 60, font |-> Some("Arial")],
    [id |-> 2, userId |-> 1, text |-> <<"B">>, position |-> "top-left", opacity |-> 30, font |-> Null],
    [id |-> 3, userId |-> 1, text |-> <<" ", " ">>, position |-> "center", opacity |-> 60, font |-> Some("Inter")] }

WatermarkIdInputs == {1, 2, 3, 4}

getWatermarkPresetById(id) ==
  IF \E w \in Watermarks : w.id = id
  THEN Some(CHOOSE w \in Watermarks : w.id = id) ELSE Null

\* findFirst({ where: { imageId }, orderBy: { createdAt: "desc" } }): the rows
\* the query may return (any row with the greatest createdAt), or Null
LatestByCreatedAt(versions, imageId) ==
  LET mine == { v \in versions : v.imageId = imageId }
  IN IF mine = {} THEN {Null}
     ELSE { Some(v) : v \in { m \in mine : \A o \in mine : m.createdAt >= o.createdAt } }

\* orderBy: [{ sortOrder: "asc" }, { id: "asc" }]
PlacementBefore(a, b) ==
  \/ a.sortOrder < b.sortOrder
  \/ (a.sortOrder = b.sortOrder /\ a.id < b.id)

\* applyWatermarkToImage, lines 71-76
PreviousPlacements(placements, latestVersion) ==
  IF latestVersion.null THEN <<>>
  ELSE OrderBy({ p \in placements : p.imageVersionId = latestVersion.v.id }, PlacementBefore)

\* CarriedPlacements that carries nothing forward (a wrong variant:
\* C3 must fail on it)
CarriedPlacementsNone(previous, versionId, ts, seq) == {}

\* applyWatermarkToImage, lines 94-107: the rows createMany inserts
CarriedPlacements(previous, versionId, ts, seq) ==
  { [id |-> seq + i,
     imageVersionId |-> versionId,
     watermarkId |-> previous[i].watermarkId,
     text |-> previous[i].text,
     position |-> previous[i].position,
     opacity |-> previous[i].opacity,
     font |-> previous[i].font,
     sortOrder |-> previous[i].sortOrder,
     appliedAt |-> ts] : i \in 1..Len(previous) }

\* applyWatermarkToImage, lines 109-112
RECURSIVE MaxSortFrom(_, _, _)
MaxSortFrom(previous, i, acc) ==
  IF i > Len(previous) THEN acc
  ELSE MaxSortFrom(previous, i + 1,
                   IF previous[i].sortOrder > acc THEN previous[i].sortOrder ELSE acc)

MaxSort(previous) == MaxSortFrom(previous, 1, -1)

\* CreatedPlacement that numbers the new placement by the count of the
\* placements carried forward (a wrong variant: C29 must fail on it)
CreatedPlacementByCount(watermark, previous, versionId, ts, seq) ==
  [id |-> seq + Len(previous) + 1,
   imageVersionId |-> versionId,
   watermarkId |-> watermark.id,
   text |-> watermark.text,
   position |-> watermark.position,
   opacity |-> watermark.opacity,
   font |-> IF watermark.font.null THEN "Inter" ELSE watermark.font.v,
   sortOrder |-> Len(previous),
   appliedAt |-> ts]

\* applyWatermarkToImage, lines 114-124
CreatedPlacement(watermark, previous, versionId, ts, seq) ==
  [id |-> seq + Len(previous) + 1,
   imageVersionId |-> versionId,
   watermarkId |-> watermark.id,
   text |-> watermark.text,
   position |-> watermark.position,
   opacity |-> watermark.opacity,
   font |-> IF watermark.font.null THEN "Inter" ELSE watermark.font.v,
   sortOrder |-> MaxSort(previous) + 1,
   appliedAt |-> ts]

\* applyWatermarkToImage, lines 127-132: the rows deleteMany removes
StalePlacements(versions, placements, imageId, versionId) ==
  { p \in placements : /\ p.imageVersionId # versionId
                       /\ \E v \in versions : v.id = p.imageVersionId /\ v.imageId = imageId }

\* applyWatermarkToImage that writes the version row first and whose throw is
\* not rolled back (a wrong variant: C8 must fail on it)
applyWatermarkToImageNoRollback(versions, placements, input, versionId, ts, seq, latestVersion) ==
  [ok |-> FALSE,
   code |-> IF getWatermarkPresetById(input.watermarkId).null
            THEN "NOT_FOUND" ELSE "INVALID_WATERMARK",
   imageVersions |-> versions \cup
     { [id |-> versionId, imageId |-> input.imageId, editedUrl |-> input.editedUrl,
        createdAt |-> ts,
        metadata |-> [watermarkId |-> input.watermarkId,
                      watermarkIds |-> <<input.watermarkId>>]] },
   imageVersionWatermarks |-> placements,
   placementSeq |-> seq]

\* applyWatermarkToImage as one transaction on the tables; latestVersion is
\* the row its findFirst returned.  A throw (code NOT_FOUND or
\* INVALID_WATERMARK) rolls everything back.
applyWatermarkToImage(versions, placements, input, versionId, ts, seq, latestVersion) ==
  LET watermark == getWatermarkPresetById(input.watermarkId)
      failed(code) == [ok |-> FALSE, code |-> code, imageVersions |-> versions,
                       imageVersionWatermarks |-> placements, placementSeq |-> seq]
  IN IF watermark.null THEN failed("NOT_FOUND")
     ELSE IF Len(Trim(watermark.v.text)) = 0 THEN failed("INVALID_WATERMARK")
     ELSE LET previous == PreviousPlacements(placements, latestVersion)
              version == [id |-> versionId, imageId |-> input.imageId,
                          editedUrl |-> input.editedUrl, createdAt |-> ts,
                          metadata |->
                            [watermarkId |-> input.watermarkId,
                             watermarkIds |->
                               [i \in 1..Len(previous) |-> previous[i].watermarkId]
                                 \o <<input.watermarkId>>]]
              versions1 == versions \cup {version}
              createdPlacement == CreatedPlacement(watermark.v, previous, versionId, ts, seq)
              placements1 == placements \cup CarriedPlacements(previous, versionId, ts, seq)
                                        \cup {createdPlacement}
              placements2 == placements1 \ StalePlacements(versions1, placements1, input.imageId, versionId)
          IN [ok |-> TRUE, imageVersions |-> versions1,
              imageVersionWatermarks |-> placements2,
              placementSeq |-> seq + Len(previous) + 1,
              version |-> version, placement |-> createdPlacement]

\* getLatestWatermarksForImage; latestVersion is the row its findFirst returned
getLatestWatermarksForImage(placements, latestVersion) ==
  IF latestVersion.null THEN <<>>
  ELSE OrderBy({ p \in placements : p.imageVersionId = latestVersion.v.id }, PlacementBefore)

\* LatestPlacementCandidates without the scope imageVersion: { imageId } (a
\* wrong variant: C10 must fail on it)
LatestPlacementCandidatesAnyImage(versions, placements, imageId, watermarkId) ==
  LET mine == { p \in placements : p.watermarkId = watermarkId }
  IN { p \in mine : \A o \in mine : p.appliedAt >= o.appliedAt }

\* deleteLatestWatermarkFromImage, lines 158-165: the rows findFirst may return
\* (orderBy: { appliedAt: "desc" } over every version of the image)
LatestPlacementCandidates(versions, placements, imageId, watermarkId) ==
  LET mine == { p \in placements :
                  /\ p.watermarkId = watermarkId
                  /\ \E v \in versions : v.id = p.imageVersionId /\ v.imageId = imageId }
  IN { p \in mine : \A o \in mine : p.appliedAt >= o.appliedAt }

\* orderBy: { createdAt: "desc" }: every order findMany may return
listWatermarkHistoryForImage(versions, imageId) ==
  LET mine == { v \in versions : v.imageId = imageId }
  IN { s \in [1..Cardinality(mine) -> mine] :
         \A i, j \in 1..Cardinality(mine) :
           i < j => (s[i] # s[j] /\ s[i].createdAt >= s[j].createdAt) }

(***************************************************************************)
(* src/src/models/uploadModel.ts: deleteImageVersionForImage               *)
(***************************************************************************)
\* deleteImageVersionForImage that finds the version by id alone, whatever
\* image the path names (a wrong variant: C22 must fail on it)
deleteImageVersionForImageAnyImage(versions, rows, placements, imageId, versionId) ==
  IF ~\E v \in versions : v.id = versionId
  THEN [found |-> FALSE, imageVersions |-> versions, imageFilters |-> rows,
        imageVersionWatermarks |-> placements]
  ELSE [found |-> TRUE,
        imageFilters |-> { r \in rows : r.imageVersionId # versionId },
        imageVersionWatermarks |-> { p \in placements : p.imageVersionId # versionId },
        imageVersions |-> { v \in versions : v.id # versionId }]

deleteImageVersionForImage(versions, rows, placements, imageId, versionId) ==
  IF ~\E v \in versions : v.id = versionId /\ v.imageId = imageId
  THEN [found |-> FALSE, imageVersions |-> versions, imageFilters |-> rows,
        imageVersionWatermarks |-> placements]
  ELSE [found |-> TRUE,
        imageFilters |-> { r \in rows : r.imageVersionId # versionId },
        imageVersionWatermarks |-> { p \in placements : p.imageVersionId # versionId },
        imageVersions |-> { v \in versions : v.id # versionId }]

(***************************************************************************)
(* Handlers (src/src/controllers).  Each is the whole handler as a         *)
(* function of the tables it reads: the response it sends and the tables   *)
(* it leaves.                                                              *)
(***************************************************************************)
Fail(status, error) == [status |-> status, error |-> error]

\* ApplyFilterGate that asks canUserUseFilter for the first filter of the
\* stack only (a wrong variant: C15 must fail on it)
ApplyFilterGateFirstOnly(imageId, body) ==
  LET stack == RequestStack(body)
  IN IF stack.null THEN Fail(400, "filterId (integer or integer[]) is required")
     ELSE IF ValidateStack(stack.v, 1, {}) # "ok" THEN Fail(400, ValidateStack(stack.v, 1, {}))
     ELSE LET image == getImageById(imageId)
          IN IF image.null THEN Fail(404, "image not found")
             ELSE IF \E i \in 1..Len(stack.v) : getFilterById(stack.v[i].filterId).null
                  THEN Fail(404, "filter not found")
             ELSE IF canUserUseFilter(image.v.userId, stack.v[1].filterId) = "NO_ACTIVE_SUBSCRIPTION"
                  THEN Fail(409, "user has no active subscription plan")
             ELSE IF canUserUseFilter(image.v.userId, stack.v[1].filterId) = "FILTER_NOT_ALLOWED"
                  THEN Fail(403, "filter not allowed for user's subscription plan")
             ELSE Fail(0, "")

\* applyFilterHandler, lines 114-178: the response that ends the handler
\* before the transaction, or status 0 when it goes on to applyFiltersToImage
ApplyFilterGate(imageId, body) ==
  LET stack == RequestStack(body)
  IN IF stack.null THEN Fail(400, "filterId (integer or integer[]) is required")
     ELSE IF ValidateStack(stack.v, 1, {}) # "ok" THEN Fail(400, ValidateStack(stack.v, 1, {}))
     ELSE LET image == getImageById(imageId)
          IN IF image.null THEN Fail(404, "image not found")
             ELSE IF \E i \in 1..Len(stack.v) : getFilterById(stack.v[i].filterId).null
                  THEN Fail(404, "filter not found")
             ELSE IF \E i \in 1..Len(stack.v) :
                       canUserUseFilter(image.v.userId, stack.v[i].filterId) = "NO_ACTIVE_SUBSCRIPTION"
                  THEN Fail(409, "user has no active subscription plan")
             ELSE IF \E i \in 1..Len(stack.v) :
                       canUserUseFilter(image.v.userId, stack.v[i].filterId) = "FILTER_NOT_ALLOWED"
                  THEN Fail(403, "filter not allowed for user's subscription plan")
             ELSE Fail(0, "")

\* applyFilterHandler, lines 180-193: the argument of applyFiltersToImage
ApplyFilterInput(imageId, stack) ==
  [imageId |-> imageId,
   filters |-> stack,
   editedUrl |-> getImageById(imageId).v.originalUrl,
   metadata |-> [filterIds |-> [i \in 1..Len(stack) |-> stack[i].filterId],
                 filters |-> [i \in 1..Len(stack) |->
                               [filterId |-> stack[i].filterId,
                                intensity |-> stack[i].intensity,
                                sortOrder |-> i - 1]]]]

\* applyFilterHandler: POST /images/:imageId/filters
applyFilterHandler(versions, rows, imageId, body, versionId, ts) ==
  LET gate == ApplyFilterGate(imageId, body)
  IN IF gate.status # 0
     THEN [res |-> gate, imageVersions |-> versions, imageFilters |-> rows]
     ELSE LET created == applyFiltersToImage(versions, rows,
                                             ApplyFilterInput(imageId, RequestStack(body).v),
                                             versionId, ts)
          IN [res |-> IF created.ok
                      THEN [status |-> 201, version |-> created.version, links |-> created.links,
                            link |-> IF Len(created.links) > 0 THEN Some(created.links[1]) ELSE Null]
                      ELSE Fail(500, "internal error"),
              imageVersions |-> created.imageVersions,
              imageFilters |-> created.imageFilters]

\* deleteAppliedFilterHandler: DELETE /images/:imageId/filters/:filterId
deleteAppliedFilterHandler(versions, rows, imageId, filterId) ==
  LET deleted == deleteLatestFilterFromImage(versions, rows, imageId, filterId)
  IN [res |-> IF deleted.found THEN [status |-> 204]
              ELSE Fail(404, "applied filter not found"),
      imageVersions |-> deleted.imageVersions,
      imageFilters |-> deleted.imageFilters]

\* applyWatermarksHandler, lines 138-153: the response that ends the handler
\* before the transaction, or status 0
ApplyWatermarkGate(imageId, watermarkId) ==
  LET image == getImageById(imageId)
  IN IF image.null THEN Fail(404, "image not found")
     ELSE LET access == getUserPlanFeatures(image.v.userId)
          IN IF ~access.ok THEN Fail(409, "user has no active subscription plan")
             ELSE IF access.features.watermark # Some(TRUE)
                  THEN Fail(403, "watermarks not allowed for user's subscription plan")
             ELSE IF getWatermarkPresetById(watermarkId).null
                  THEN Fail(404, "watermark not found")
             ELSE Fail(0, "")

\* applyWatermarksHandler: POST /images/:imageId/watermarks
applyWatermarksHandler(versions, placements, seq, imageId, watermarkId, versionId, ts, latestVersion) ==
  LET gate == ApplyWatermarkGate(imageId, watermarkId)
  IN IF gate.status # 0
     THEN [res |-> gate, imageVersions |-> versions,
           imageVersionWatermarks |-> placements, placementSeq |-> seq]
     ELSE LET created == applyWatermarkToImage(
                           versions, placements,
                           [imageId |-> imageId, watermarkId |-> watermarkId,
                            editedUrl |-> getImageById(imageId).v.originalUrl],
                           versionId, ts, seq, latestVersion)
          IN [res |-> IF created.ok
                      THEN [status |-> 201, version |-> created.version,
                            placement |-> created.placement]
                      ELSE IF created.code = "NOT_FOUND"
                           THEN Fail(404, "watermark not found")
                           ELSE Fail(500, "internal error"),
              imageVersions |-> created.imageVersions,
              imageVersionWatermarks |-> created.imageVersionWatermarks,
              placementSeq |-> created.placementSeq]

\* deleteLatestWatermarkFromImage as one transaction; latest is the row its
\* findFirst returned, or Null
deleteLatestWatermarkFromImage(placements, latest) ==
  IF latest.null THEN [found |-> FALSE, imageVersionWatermarks |-> placements]
  ELSE [found |-> TRUE, imageVersionWatermarks |-> placements \ {latest.v}]

\* the rows findFirst of deleteLatestWatermarkFromImage may return, or Null
LatestPlacementChoices(versions, placements, imageId, watermarkId) ==
  IF LatestPlacementCandidates(versions, placements, imageId, watermarkId) = {} THEN {Null}
  ELSE { Some(p) : p \in LatestPlacementCandidates(versions, placements, imageId, watermarkId) }

\* deleteLatestWatermarksHandler: DELETE /images/:imageId/watermarks/:watermarkId
deleteLatestWatermarksHandler(placements, imageId, latest) ==
  LET image == getImageById(imageId)
      unchanged(status, error) == [res |-> Fail(status, error), imageVersionWatermarks |-> placements]
  IN IF image.null THEN unchanged(404, "image not found")
     ELSE IF ~getUserPlanFeatures(image.v.userId).ok
          THEN unchanged(409, "user has no active subscription plan")
     ELSE IF getUserPlanFeatures(image.v.userId).features.watermark # Some(TRUE)
          THEN unchanged(403, "watermarks not allowed for user's subscription plan")
     ELSE LET deleted == deleteLatestWatermarkFromImage(placements, latest)
          IN [res |-> IF deleted.found THEN [status |-> 204]
                      ELSE Fail(404, "applied watermark not found"),
              imageVersionWatermarks |-> deleted.imageVersionWatermarks]

\* deleteImageVersionHandler: DELETE /images/:imageId/versions/:versionId
deleteImageVersionHandler(versions, rows, placements, imageId, versionId) ==
  LET deleted == deleteImageVersionForImage(versions, rows, placements, imageId, versionId)
  IN [res |-> IF deleted.found THEN [status |-> 204]
              ELSE Fail(404, "image version not found"),
      imageVersions |-> deleted.imageVersions,
      imageFilters |-> deleted.imageFilters,
      imageVersionWatermarks |-> deleted.imageVersionWatermarks]

(***************************************************************************)
(* Requests of Spec.                                                       *)
(***************************************************************************)
\* bodies of POST /images/:imageId/filters: the preferred shape
\* { filterId: int | int[], intensity?: int | int[] } and the legacy shape
\* { filters: [{ filterId, intensity? }] }
EditBodies ==
  { [filterId |-> f, intensity |-> Undefined, filters |-> Undefined] :
      f \in { Undefined, JNum(1), JNum(3), JNum(4),
              JArr(<<JNum(1), JNum(2)>>), JArr(<<JNum(1), JNum(1)>>),
              JArr(<<JNum(1), JNum(3)>>) } }
  \cup
  { [filterId |-> JNum(1), intensity |-> JNum(101), filters |-> Undefined],
    [filterId |-> Undefined, intensity |-> Undefined,
     filters |-> JArr(<<JFilterItem(JNum(2), Undefined), JFilterItem(JNum(1), JNum(0))>>)] }

(***************************************************************************)
(* Spec: the handlers, one request at a time.  Requests that do not         *)
(* overlap get distinct timestamps, so no two versions tie on createdAt    *)
(* and the order of the uuids decides nothing: the next uuid is the least  *)
(* unused one.                                                             *)
(***************************************************************************)
vars == <<images, imageVersions, imageFilters, imageVersionWatermarks,
          usedVersionIds, placementSeq, now, uploads, overlapped, tx, request, editLog,
          subscriptions, subscriptionPlanFilters, userProfiles, payments>>

\* what the edit handlers never write
planvars == <<subscriptions, subscriptionPlanFilters, userProfiles, payments>>

uploadvars == <<images, uploads, overlapped, request, planvars>>

Init ==
  /\ request = Null
  /\ images = SeedImages
  /\ uploads = [p \in Procs |-> Idle]
  /\ overlapped = FALSE
  /\ tx = [p \in Procs |-> Idle]
  /\ imageVersions = {}
  /\ imageFilters = {}
  /\ imageVersionWatermarks = {}
  /\ usedVersionIds = {}
  /\ placementSeq = 0
  /\ now = 1
  /\ editLog = <<>>
  /\ subscriptions = Subscriptions
  /\ subscriptionPlanFilters = SubscriptionPlanFilters
  /\ userProfiles = UserProfiles
  /\ payments = {}

\* the ids of a stack, in the order of the request
StackFilterIds(stack) == [i \in 1..Len(stack) |-> stack[i].filterId]

\* what the client knows of an edit answered 201: the image, the version of
\* the response, the kind and the ids it asked for; removed collects the
\* filter ids that removals answered 204 took from it afterwards
LoggedEdit(imageId, versionId, kind, ids) ==
  [imageId |-> imageId, versionId |-> versionId, kind |-> kind, ids |-> ids, removed |-> {}]

\* a removal of a filter answered 204: noted on the last edit of the image
LoggedRemoval(imageId, filterId) ==
  LET mine == { i \in 1..Len(editLog) : editLog[i].imageId = imageId }
  IN IF mine = {} THEN editLog
     ELSE LET last == CHOOSE i \in mine : \A j \in mine : j <= i
          IN [editLog EXCEPT ![last].removed = @ \cup {filterId}]

NextVersionIds ==
  { v \in VersionIds \ usedVersionIds : \A o \in VersionIds \ usedVersionIds : v <= o }

ApplyFilter(imageId, body, versionId) ==
  LET out == applyFilterHandler(imageVersions, imageFilters, imageId, body, versionId, now)
  IN /\ imageVersions' = out.imageVersions
     /\ imageFilters' = out.imageFilters
     /\ usedVersionIds' = IF out.res.status = 201 THEN usedVersionIds \cup {versionId}
                          ELSE usedVersionIds
     /\ now' = IF out.res.status = 201 THEN now + 1 ELSE now
     /\ editLog' = IF out.res.status = 201
                   THEN Append(editLog, LoggedEdit(imageId, versionId, "filters",
                                                   StackFilterIds(RequestStack(body).v)))
                   ELSE editLog
     /\ UNCHANGED <<imageVersionWatermarks, placementSeq, images, uploads, overlapped, tx,
                    planvars>>

DeleteAppliedFilter(imageId, filterId) ==
  LET out == deleteAppliedFilterHandler(imageVersions, imageFilters, imageId, filterId)
  IN /\ imageVersions' = out.imageVersions
     /\ imageFilters' = out.imageFilters
     /\ editLog' = IF out.res.status = 204 THEN LoggedRemoval(imageId, filterId) ELSE editLog
     /\ UNCHANGED <<imageVersionWatermarks, usedVersionIds, placementSeq, now, uploadvars, tx>>

ApplyWatermark(imageId, watermarkId, versionId, latestVersion) ==
  LET out == applyWatermarksHandler(imageVersions, imageVersionWatermarks, placementSeq,
                                    imageId, watermarkId, versionId, now, latestVersion)
  IN /\ imageVersions' = out.imageVersions
     /\ imageVersionWatermarks' = out.imageVersionWatermarks
     /\ placementSeq' = out.placementSeq
     /\ usedVersionIds' = IF out.res.status = 201 THEN usedVersionIds \cup {versionId}
                          ELSE usedVersionIds
     /\ now' = IF out.res.status = 201 THEN now + 1 ELSE now
     /\ editLog' = IF out.res.status = 201
                   THEN Append(editLog, LoggedEdit(imageId, versionId, "watermark", <<watermarkId>>))
                   ELSE editLog
     /\ UNCHANGED <<imageFilters, uploadvars, tx>>

DeleteLatestWatermark(imageId, watermarkId, latest) ==
  LET out == deleteLatestWatermarksHandler(imageVersionWatermarks, imageId, latest)
  IN /\ imageVersionWatermarks' = out.imageVersionWatermarks
     /\ UNCHANGED <<imageVersions, imageFilters, usedVersionIds, placementSeq, now,
                    uploadvars, tx, editLog>>

DeleteImageVersion(imageId, versionId) ==
  LET out == deleteImageVersionHandler(imageVersions, imageFilters, imageVersionWatermarks,
                                       imageId, versionId)
  IN /\ imageVersions' = out.imageVersions
     /\ imageFilters' = out.imageFilters
     /\ imageVersionWatermarks' = out.imageVersionWatermarks
     /\ UNCHANGED <<usedVersionIds, placementSeq, now, uploadvars, tx, editLog>>

Next ==
  \/ \E imageId \in ImageIdInputs, body \in EditBodies, versionId \in NextVersionIds :
       ApplyFilter(imageId, body, versionId) /\ UNCHANGED request
  \/ \E imageId \in ImageIdInputs, filterId \in FilterIdInputs :
       DeleteAppliedFilter(imageId, filterId)
  \/ \E imageId \in ImageIdInputs, watermarkId \in WatermarkIdInputs,
        versionId \in NextVersionIds :
       \E latestVersion \in LatestByCreatedAt(imageVersions, imageId) :
         ApplyWatermark(imageId, watermarkId, versionId, latestVersion)
  \/ \E imageId \in ImageIdInputs, watermarkId \in WatermarkIdInputs :
       \E latest \in LatestPlacementChoices(imageVersions, imageVersionWatermarks,
                                            imageId, watermarkId) :
         DeleteLatestWatermark(imageId, watermarkId, latest)
  \/ \E imageId \in ImageIdInputs, versionId \in VersionIds :
       DeleteImageVersion(imageId, versionId)

Spec == Init /\ [][Next]_vars

(***************************************************************************)
(* Properties of Spec.                                                     *)
(***************************************************************************)
VersionsOf(imageId) == { v \in imageVersions : v.imageId = imageId }

FilterLinksOf(rows, versionId) == { r \in rows : r.imageVersionId = versionId }

PlacementsOf(placements, versionId) == { p \in placements : p.imageVersionId = versionId }

HoldsLinks(versionId) ==
  \/ FilterLinksOf(imageFilters, versionId) # {}
  \/ PlacementsOf(imageVersionWatermarks, versionId) # {}

\* C1: for every image, at most one version has filter links or watermark
\* placements, and every version older than the image's latest version has
\* neither.
C1_OnlyLatestVersionHoldsLinks ==
  \A img \in images :
    /\ Cardinality({ v \in VersionsOf(img.id) : HoldsLinks(v.id) }) <= 1
    /\ \A v \in VersionsOf(img.id) :
         (\E o \in VersionsOf(img.id) : VersionNewerById(o, v)) => ~HoldsLinks(v.id)

\* C2: a successful applyFilters leaves on the new version exactly one link
\* per item of the requested stack, with the item's filter id and intensity
\* and sortOrder equal to its position from 0, whatever links the image had
\* before, and getLatestFiltersForImage returns these links.
C2_NewVersionHoldsRequestedStack ==
  [][\A version \in imageVersions' \ imageVersions : \A body \in EditBodies :
       (/\ "filters" \in DOMAIN version.metadata
        /\ ApplyFilter(version.imageId, body, version.id))
       => LET stack == RequestStack(body).v
              links == FilterLinksOf(imageFilters', version.id)
              latest == getLatestFiltersForImage(imageVersions', imageFilters', version.imageId)
          IN /\ Cardinality(links) = Len(stack)
             /\ \A i \in 1..Len(stack) :
                  \E r \in links : /\ r.filterId = stack[i].filterId
                                   /\ r.intensity = stack[i].intensity
                                   /\ r.sortOrder = i - 1
             /\ SeqToSet(latest) = links
             /\ Len(latest) = Cardinality(links)
    ]_vars

\* C2 witness: an image that already had a filter edit got the stack
\* [{2, 100}, {1, 0}]: its newest version holds filter 2 at sortOrder 0 and
\* filter 1 at sortOrder 1.
C2_Witness ==
  \E v1, v2 \in imageVersions :
    /\ v1.imageId = v2.imageId
    /\ v1.createdAt < v2.createdAt
    /\ "filters" \in DOMAIN v1.metadata
    /\ { [filterId |-> r.filterId, intensity |-> r.intensity, sortOrder |-> r.sortOrder] :
           r \in FilterLinksOf(imageFilters, v2.id) }
       = { [filterId |-> 2, intensity |-> 100, sortOrder |-> 0],
           [filterId |-> 1, intensity |-> 0, sortOrder |-> 1] }

\* the fields of a placement that carry-forward copies
PlacementContent(p) ==
  [watermarkId |-> p.watermarkId, text |-> p.text, position |-> p.position,
   opacity |-> p.opacity, font |-> p.font, sortOrder |-> p.sortOrder]

\* C3: a successful applyWatermark(image, w) leaves on the new version the
\* placements of the previous latest version with the same watermark id,
\* text, position, opacity, font and sortOrder, plus one placement for w
\* whose sortOrder is the greatest of those plus one, or 0 when there were
\* none; the previous latest version keeps no placement.
C3_CarryForwardAndAppend ==
  [][\A version \in imageVersions' \ imageVersions :
       \A latestVersion \in LatestByCreatedAt(imageVersions, version.imageId) :
         (/\ "watermarkId" \in DOMAIN version.metadata
          /\ ApplyWatermark(version.imageId, version.metadata.watermarkId, version.id,
                            latestVersion))
         => LET before == IF latestVersion.null THEN {}
                          ELSE PlacementsOf(imageVersionWatermarks, latestVersion.v.id)
                after == PlacementsOf(imageVersionWatermarks', version.id)
                added == { p \in after : PlacementContent(p) \notin
                                           { PlacementContent(b) : b \in before } }
            IN /\ Cardinality(after) = Cardinality(before) + 1
               /\ \A b \in before : \E p \in after : PlacementContent(p) = PlacementContent(b)
               /\ Cardinality(added) = 1
               /\ \A p \in added :
                    /\ p.watermarkId = version.metadata.watermarkId
                    /\ \A b \in before : p.sortOrder > b.sortOrder
                    /\ \/ before = {} /\ p.sortOrder = 0
                       \/ \E b \in before : p.sortOrder = b.sortOrder + 1
               /\ \/ latestVersion.null
                  \/ PlacementsOf(imageVersionWatermarks', latestVersion.v.id) = {}
    ]_vars

\* C3 witness: watermark 1 then watermark 2 on one image: the final version
\* holds both, at sortOrder 0 and 1, and the intermediate version holds none.
C3_Witness ==
  \E v1, v2 \in imageVersions :
    /\ v1.imageId = v2.imageId
    /\ v1.createdAt < v2.createdAt
    /\ "watermarkId" \in DOMAIN v1.metadata /\ v1.metadata.watermarkId = 1
    /\ PlacementsOf(imageVersionWatermarks, v1.id) = {}
    /\ { <<p.watermarkId, p.sortOrder>> : p \in PlacementsOf(imageVersionWatermarks, v2.id) }
       = { <<1, 0>>, <<2, 1>> }


\* C8: an applyFilters or applyWatermark call that does not answer 201
\* (rejected at validation, at the entitlement gate, for a missing image,
\* filter or preset, or by a throw inside the transaction) leaves the
\* versions, the filter links and the placements as they were.
C8_FailedEditChangesNothing ==
  [][\/ UNCHANGED dbvars
     \/ /\ \A imageId \in ImageIdInputs, body \in EditBodies, versionId \in NextVersionIds :
             (/\ applyFilterHandler(imageVersions, imageFilters, imageId, body,
                                    versionId, now).res.status # 201
              /\ ApplyFilter(imageId, body, versionId))
             => UNCHANGED dbvars
        /\ \A imageId \in ImageIdInputs, watermarkId \in WatermarkIdInputs,
              versionId \in NextVersionIds :
             \A latestVersion \in LatestByCreatedAt(imageVersions, imageId) :
               (/\ applyWatermarksHandler(imageVersions, imageVersionWatermarks, placementSeq,
                                          imageId, watermarkId, versionId, now,
                                          latestVersion).res.status # 201
                /\ ApplyWatermark(imageId, watermarkId, versionId, latestVersion))
               => UNCHANGED dbvars
    ]_vars

\* C8 witness: links and placements exist, and a call on an image whose owner
\* passes the gate fails inside the transaction (the preset's text is blank).
C8_Witness ==
  /\ imageFilters # {}
  /\ imageVersionWatermarks # {}
  /\ \E img \in images, versionId \in NextVersionIds :
       \E latestVersion \in LatestByCreatedAt(imageVersions, img.id) :
         /\ VersionsOf(img.id) # {}
         /\ applyWatermarksHandler(imageVersions, imageVersionWatermarks, placementSeq,
                                   img.id, 3, versionId, now, latestVersion).res.status = 500

\* C10: on an image that has no version, deleteLatestFilterFromImage and
\* deleteLatestWatermarkFromImage find nothing (the handlers answer 404 not
\* found) and every table, version metadata included, stays as it was.
C10_RemoveOnImageWithoutVersions ==
  \A imageId \in ImageIdInputs :
    VersionsOf(imageId) = {} =>
      /\ \A filterId \in FilterIdInputs :
           /\ deleteLatestFilterFromImage(imageVersions, imageFilters, imageId, filterId)
              = [found |-> FALSE, imageVersions |-> imageVersions,
                 imageFilters |-> imageFilters]
           /\ deleteAppliedFilterHandler(imageVersions, imageFilters, imageId, filterId)
              = [res |-> Fail(404, "applied filter not found"),
                 imageVersions |-> imageVersions, imageFilters |-> imageFilters]
      /\ \A watermarkId \in WatermarkIdInputs :
           \A latest \in LatestPlacementChoices(imageVersions, imageVersionWatermarks,
                                                imageId, watermarkId) :
             /\ deleteLatestWatermarkFromImage(imageVersionWatermarks, latest)
                = [found |-> FALSE, imageVersionWatermarks |-> imageVersionWatermarks]
             /\ LET out == deleteLatestWatermarksHandler(imageVersionWatermarks, imageId, latest)
                IN /\ out.imageVersionWatermarks = imageVersionWatermarks
                   /\ out.res.status \in {404, 409, 403}
                   /\ (/\ ~getImageById(imageId).null
                       /\ getUserPlanFeatures(getImageById(imageId).v.userId).ok
                       /\ getUserPlanFeatures(getImageById(imageId).v.userId).features.watermark
                          = Some(TRUE))
                      => out.res = Fail(404, "applied watermark not found")

\* C10 witness: image 1 has no version while another image holds filter
\* links and placements that a removal could hit.
C10_Witness ==
  /\ VersionsOf(1) = {}
  /\ imageFilters # {}
  /\ imageVersionWatermarks # {}


(***************************************************************************)
(* src/src/models/uploadModel.ts and uploadImageHandler                     *)
(* (src/src/controllers/uploadController.ts).                               *)
(***************************************************************************)
MonthLength == 2     \* clock ticks in one calendar month
MaxClock == 3        \* last tick of the clock in SpecUpload
MaxUploads == 3      \* images created in one behaviour of SpecUpload

\* req.file.size of the uploads tried: one byte, one mebibyte
UploadSizes == {1, 1024 * 1024}

IsDigit(c) == c \in {"0", "1", "2", "3", "4", "5", "6", "7", "8", "9"}

DigitValue(c) ==
  CASE c = "0" -> 0 [] c = "1" -> 1 [] c = "2" -> 2 [] c = "3" -> 3 [] c = "4" -> 4
    [] c = "5" -> 5 [] c = "6" -> 6 [] c = "7" -> 7 [] c = "8" -> 8 [] c = "9" -> 9

RECURSIVE DigitsValue(_, _)
DigitsValue(s, acc) ==
  IF s = <<>> THEN acc ELSE DigitsValue(Tail(s), 10 * acc + DigitValue(Head(s)))

\* Number(value) on the strings the plan documents hold: decimal digits with
\* blanks around them give the integer, anything else with a letter is NaN
\* (Null)
NumberOfString(s) ==
  IF Trim(s) # <<>> /\ \A i \in 1..Len(Trim(s)) : IsDigit(Trim(s)[i])
  THEN Some(JNum(DigitsValue(Trim(s), 0)))
  ELSE Null

\* toOptionalNumber as Number(value) alone, which takes null, the empty
\* string and a blank string for 0 (a wrong variant: C25 must fail on it)
toOptionalNumberCoercing(value) ==
  IF value.t = "undefined" THEN Null
  ELSE IF value.t = "null" THEN Some(JNum(0))
  ELSE IF value.t = "number" THEN Some(value)
  ELSE IF value.t = "string"
       THEN IF Trim(value.s) = <<>> THEN Some(JNum(0)) ELSE NumberOfString(value.s)
  ELSE Null

\* number | null: Some(JNum(n)), Some(JHalf(n)) or Null
toOptionalNumber(value) ==
  IF value.t = "null" \/ value.t = "undefined" THEN Null
  ELSE IF value.t = "number" THEN Some(value)
  ELSE IF value.t = "string" /\ Trim(value.s) # <<>>
       THEN NumberOfString(value.s)
  ELSE Null

parseLimitsJson(value) ==
  IF value.t # "object" THEN [maxStorageMbPerMonth |-> Null, maxImagesPerMonth |-> Null]
  ELSE [maxStorageMbPerMonth |-> toOptionalNumber(value.o.max_storage_mb),
        maxImagesPerMonth |-> toOptionalNumber(value.o.max_images_month)]

getUserProfileById(id) == IF id \in userProfiles THEN Some(id) ELSE Null

\* getUserUploadLimits that gives a user without an active subscription a plan
\* without limits (a wrong variant: C17 must fail on it)
getUserUploadLimitsUnlimited(userId) ==
  LET active == FindActiveSubscription(userId)
  IN IF active.null
     THEN Some([planId |-> 0, planName |-> "none",
                maxImagesPerMonth |-> Null, maxStorageMbPerMonth |-> Null])
     ELSE LET plan == PlanById(active.v.planId)
              parsed == parseLimitsJson([t |-> "object", o |-> plan.limitsJson])
          IN Some([planId |-> plan.id, planName |-> plan.name,
                   maxImagesPerMonth |-> parsed.maxImagesPerMonth,
                   maxStorageMbPerMonth |-> parsed.maxStorageMbPerMonth])

getUserUploadLimits(userId) ==
  LET active == FindActiveSubscription(userId)
  IN IF active.null THEN Null
     ELSE LET plan == PlanById(active.v.planId)
              parsed == parseLimitsJson([t |-> "object", o |-> plan.limitsJson])
          IN Some([planId |-> plan.id, planName |-> plan.name,
                   maxImagesPerMonth |-> parsed.maxImagesPerMonth,
                   maxStorageMbPerMonth |-> parsed.maxStorageMbPerMonth])

\* new Date(now.getFullYear(), now.getMonth(), 1, 0, 0, 0, 0)
MonthStart(ts) == (ts \div MonthLength) * MonthLength

RECURSIVE SumSizeBytes(_)
SumSizeBytes(rows) ==
  IF rows = {} THEN 0
  ELSE LET r == CHOOSE x \in rows : TRUE
       IN r.sizeBytes + SumSizeBytes(rows \ {r})

getUserCurrentMonthUsage(imgs, userId, ts) ==
  LET monthStart == MonthStart(ts)
      nextMonthStart == MonthStart(ts) + MonthLength
      mine == { img \in imgs : /\ img.userId = userId
                               /\ img.createdAt >= monthStart
                               /\ img.createdAt < nextMonthStart }
  IN [monthStart |-> monthStart, nextMonthStart |-> nextMonthStart,
      imageCount |-> Cardinality(mine), storageBytes |-> SumSizeBytes(mine)]

\* Math.ceil in place of Math.floor (a wrong variant: C6 must fail on it)
MathCeil(x) == IF x.half THEN x.n + 1 ELSE x.n

\* Math.floor of a number n or n + 1/2
MathFloor(x) == x.n

\* uploadImageHandler, lines 59-84: the two limit checks on the decoded
\* limits of the plan and the usage of the month; status 0 when both pass
UploadLimitChecks(limits, usage, sizeBytes) ==
  IF /\ ~limits.maxImagesPerMonth.null
     /\ usage.imageCount + 1 > MathFloor(limits.maxImagesPerMonth.v)
  THEN Fail(403, "monthly upload limit reached for plan")
  ELSE IF /\ ~limits.maxStorageMbPerMonth.null
          /\ usage.storageBytes + sizeBytes
             > MathFloor(limits.maxStorageMbPerMonth.v) * 1024 * 1024
       THEN Fail(403, "monthly storage limit reached for plan")
  ELSE Fail(0, "")

\* uploadImageHandler, lines 36-84: the response that ends the handler before
\* the upload to storage, or status 0 when it goes on
UploadGate(imgs, userId, sizeBytes, ts) ==
  IF getUserProfileById(userId).null THEN Fail(404, "user not found")
  ELSE LET limits == getUserUploadLimits(userId)
           usage == getUserCurrentMonthUsage(imgs, userId, ts)
       IN IF limits.null THEN Fail(409, "user has no active subscription plan")
          ELSE UploadLimitChecks(limits.v, usage, sizeBytes)

\* getUserQuotaHandler: GET /users/:userId/quota (src/unnamed/part_013)
getUserQuotaHandler(imgs, userId, ts) ==
  IF getUserProfileById(userId).null THEN Fail(404, "user not found")
  ELSE LET limits == getUserUploadLimits(userId)
           usage == getUserCurrentMonthUsage(imgs, userId, ts)
       IN IF limits.null THEN Fail(409, "user has no active subscription plan")
          ELSE LET maxImages == limits.v.maxImagesPerMonth
                   maxStorageMb == limits.v.maxStorageMbPerMonth
                   maxStorageBytes == IF maxStorageMb.null THEN Null
                                      ELSE Some(MathFloor(maxStorageMb.v) * 1024 * 1024)
                   remainingImages ==
                     IF maxImages.null THEN Null
                     ELSE Some(IF MathFloor(maxImages.v) - usage.imageCount > 0
                               THEN MathFloor(maxImages.v) - usage.imageCount ELSE 0)
                   remainingStorageBytes ==
                     IF maxStorageBytes.null THEN Null
                     ELSE Some(IF maxStorageBytes.v > usage.storageBytes
                               THEN maxStorageBytes.v - usage.storageBytes ELSE 0)
               IN [status |-> 200,
                   plan |-> [id |-> limits.v.planId, name |-> limits.v.planName],
                   window |-> [from |-> usage.monthStart, to |-> usage.nextMonthStart],
                   limits |-> [maxImagesPerMonth |-> maxImages,
                               maxStorageMbPerMonth |-> maxStorageMb,
                               maxStorageBytesPerMonth |-> maxStorageBytes],
                   usage |-> [imagesThisMonth |-> usage.imageCount,
                              storageBytesThisMonth |-> usage.storageBytes],
                   remaining |-> [imagesThisMonth |-> remainingImages,
                                  storageBytesThisMonth |-> remainingStorageBytes]]

\* createImageForUpload that inserts only while the gate still passes (a
\* wrong variant: C7 must fail on it)
createImageForUploadUnderLimit(imgs, input, ts) ==
  IF UploadGate(imgs, input.userId, input.sizeBytes, ts).status = 0
  THEN imgs \cup { [id |-> Cardinality(imgs) + 1, userId |-> input.userId,
                    originalUrl |-> input.originalUrl, sizeBytes |-> input.sizeBytes,
                    createdAt |-> ts] }
  ELSE imgs

\* createImageForUpload: the table with the new row; the uuid of the row is
\* the next unused one, createdAt is the clock at the insert
createImageForUpload(imgs, input, ts) ==
  imgs \cup { [id |-> Cardinality(imgs) + 1, userId |-> input.userId,
               originalUrl |-> input.originalUrl, sizeBytes |-> input.sizeBytes,
               createdAt |-> ts] }

(***************************************************************************)
(* SpecUpload: uploadImageHandler in two steps, the reads that gate the    *)
(* upload (lines 44-84) and the insert (line 101), with the upload to      *)
(* storage in between; two requests may interleave, and the clock may tick *)
(* between any two steps.  uploads[p] holds the locals of the request:     *)
(* userId, req.file.size and the usage it read.                            *)
(***************************************************************************)
editvars == <<imageVersions, imageFilters, imageVersionWatermarks, usedVersionIds,
              placementSeq, tx, request, editLog, planvars>>

UploadsInFlight == { p \in Procs : uploads[p].pc = "checked" }

\* lines 36-84: the request ends here (400, 404, 409, 403) or goes on
UploadCheck(p, userId, sizeBytes) ==
  /\ uploads[p].pc \in {"idle", "created"}
  /\ Cardinality(images) - Cardinality(SeedImages) + Cardinality(UploadsInFlight) < MaxUploads
  /\ uploads' = [uploads EXCEPT ![p] =
                   IF UploadGate(images, userId, sizeBytes, now).status = 0
                   THEN [pc |-> "checked", userId |-> userId, sizeBytes |-> sizeBytes,
                         usage |-> getUserCurrentMonthUsage(images, userId, now)]
                   ELSE Idle]
  /\ overlapped' = (overlapped \/ UploadsInFlight # {})
  /\ UNCHANGED <<images, now, editvars>>

\* lines 86-110: the object is stored and the row inserted (201); the request
\* stays on record until the connection takes the next one
UploadCreate(p) ==
  /\ uploads[p].pc = "checked"
  /\ images' = createImageForUpload(
                 images,
                 [userId |-> uploads[p].userId,
                  originalUrl |-> <<"images", uploads[p].userId, Cardinality(images) + 1>>,
                  sizeBytes |-> uploads[p].sizeBytes],
                 now)
  /\ uploads' = [uploads EXCEPT ![p].pc = "created"]
  /\ UNCHANGED <<overlapped, now, editvars>>

\* lines 89-94, 111-116: uploadBufferToStorage throws; nothing is inserted (500)
UploadStorageError(p) ==
  /\ uploads[p].pc = "checked"
  /\ uploads' = [uploads EXCEPT ![p] = Idle]
  /\ UNCHANGED <<images, overlapped, now, editvars>>

Tick ==
  /\ now < MaxClock
  /\ now' = now + 1
  /\ UNCHANGED <<images, uploads, overlapped, editvars>>

NextUpload ==
  \/ \E p \in Procs, userId \in UserIdInputs, sizeBytes \in UploadSizes :
       UploadCheck(p, userId, sizeBytes)
  \/ \E p \in Procs : UploadCreate(p)
  \/ \E p \in Procs : UploadStorageError(p)
  \/ Tick

SpecUpload == Init /\ [][NextUpload]_vars


(***************************************************************************)
(* Properties of SpecUpload.                                               *)
(***************************************************************************)
\* the images of a user created in the calendar month of ts
ImagesInMonthOf(userId, ts) ==
  { img \in images : /\ img.userId = userId
                     /\ img.createdAt \div MonthLength = ts \div MonthLength }

\* floor(L) for the users whose plan has an image limit L: Pro "3" (user 1),
\* Basic 2.5 (user 2), Free 2 (user 3)
FloorOfImageLimit(userId) ==
  CASE userId = 1 -> 3 [] userId = 2 -> 2 [] userId = 3 -> 2

LimitedUsers == {1, 2, 3}

QuotaExceeded == Fail(403, "monthly upload limit reached for plan")

\* C6: for a user whose plan has image limit L, an upload is answered 403
\* (monthly upload limit) and inserts nothing exactly when the user's images
\* created in the current month number floor(L) or more, images of earlier
\* months not counting; and as long as no two uploads overlapped, the user's
\* images within one month never exceed floor(L).
C6_QuotaPerWindow ==
  /\ [](\A userId \in LimitedUsers :
          /\ \A sizeBytes \in UploadSizes :
               (Cardinality(ImagesInMonthOf(userId, now)) >= FloorOfImageLimit(userId))
               <=> (UploadGate(images, userId, sizeBytes, now) = QuotaExceeded)
          /\ ~overlapped =>
               \A ts \in 0..MaxClock :
                 Cardinality(ImagesInMonthOf(userId, ts)) <= FloorOfImageLimit(userId))
  /\ [][\A p \in Procs, userId \in LimitedUsers, sizeBytes \in UploadSizes :
          (/\ Cardinality(ImagesInMonthOf(userId, now)) >= FloorOfImageLimit(userId)
           /\ UploadCheck(p, userId, sizeBytes))
          => (images' = images /\ uploads'[p] = Idle)
       ]_vars

\* C6 witness: no uploads overlapped, user 2 (limit 2.5) filled an earlier
\* month with two images, has two more in the current month, and the next
\* upload is answered 403.
C6_Witness ==
  /\ ~overlapped
  /\ now \div MonthLength = 1
  /\ Cardinality(ImagesInMonthOf(2, 0)) = 2
  /\ Cardinality(ImagesInMonthOf(2, now)) = 2
  /\ UploadGate(images, 2, 1, now) = QuotaExceeded

\* C7: nothing between the quota check and the insert looks at the usage
\* again: a request that passed the check inserts its image whatever the
\* user's count has become, so two overlapping uploads that read the same
\* usage both insert and leave the count above the limit.
C7_InsertIgnoresUsage ==
  [][\A p \in Procs :
       UploadCreate(p) =>
         /\ Cardinality(images') = Cardinality(images) + 1
         /\ \E img \in images' \ images :
              img.userId = uploads[p].userId /\ img.createdAt = now
    ]_vars

\* C7 witness: both requests of one user passed the check on the same usage,
\* both inserted, and the user's count for the month is above floor(L).
C7_Witness ==
  \E userId \in LimitedUsers :
    /\ \A p \in Procs : /\ uploads[p].pc = "created"
                        /\ uploads[p].userId = userId
                        /\ uploads[p].usage = uploads[1].usage
                        /\ uploads[p].usage.monthStart = MonthStart(now)
    /\ Cardinality(ImagesInMonthOf(userId, now)) > FloorOfImageLimit(userId)


(***************************************************************************)
(* SpecInput: one request POST /images/:imageId/filters, its body drawn    *)
(* from every body of either shape with at most MaxStack items, handled by *)
(* applyFilterHandler on the seed database.                                *)
(***************************************************************************)
\* sequences over S of length lo..hi
SeqsOf(S, lo, hi) == UNION { [1..n -> S] : n \in lo..hi }

\* JSON numbers a request gives as filter ids and as intensities
FilterIdValues == { JNum(1), JNum(2), JNum(3) }

IntensityValues == { JNum(-1), JNum(0), JNum(100), JNum(101), JHalf(50) }

\* { filterId: int | int[], intensity?: int | int[] }
NewShapeBodies ==
  { [filterId |-> f, intensity |-> i, filters |-> l] :
      f \in FilterIdValues \cup { JArr(a) : a \in SeqsOf(FilterIdValues, 1, MaxStack) },
      i \in {Undefined} \cup IntensityValues
            \cup { JArr(a) : a \in SeqsOf(IntensityValues, 1, MaxStack) },
      \* alone, or next to a legacy stack that is valid
      l \in { Undefined, JArr(<<JFilterItem(JNum(2), Undefined)>>) } }

\* { filters: [{ filterId, intensity? }] }
LegacyBodies ==
  { [filterId |-> Undefined, intensity |-> Undefined, filters |-> JArr(a)] :
      a \in SeqsOf({ JFilterItem(f, i) : f \in FilterIdValues,
                                         i \in {Undefined} \cup IntensityValues },
                   0, MaxStack) }

InputBodies == NewShapeBodies \cup LegacyBodies

InitInput ==
  /\ request \in { [imageId |-> imageId, body |-> body, done |-> FALSE, status |-> 0] :
                     imageId \in {1, 5}, body \in InputBodies }
  /\ images = SeedImages
  /\ uploads = [p \in Procs |-> Idle]
  /\ overlapped = FALSE
  /\ tx = [p \in Procs |-> Idle]
  /\ imageVersions = {}
  /\ imageFilters = {}
  /\ imageVersionWatermarks = {}
  /\ usedVersionIds = {}
  /\ placementSeq = 0
  /\ now = 1
  /\ editLog = <<>>
  /\ subscriptions = Subscriptions
  /\ subscriptionPlanFilters = SubscriptionPlanFilters
  /\ userProfiles = UserProfiles
  /\ payments = {}

HandleRequest(versionId) ==
  /\ ~request.done
  /\ ApplyFilter(request.imageId, request.body, versionId)
  /\ request' = [request EXCEPT
                   !.done = TRUE,
                   !.status = applyFilterHandler(imageVersions, imageFilters, request.imageId,
                                                 request.body, versionId, now).res.status]

NextInput == \E versionId \in NextVersionIds : HandleRequest(versionId)

SpecInput == InitInput /\ [][NextInput]_vars

(***************************************************************************)
(* Properties of SpecInput.                                                *)
(***************************************************************************)
\* a JSON number that is not an integer in [0, 100]
BadIntensity(j) == j.half \/ j.n < 0 \/ j.n > 100

HasDuplicate(s) == \E i, j \in 1..Len(s) : i < j /\ s[i] = s[j]

AsArray(j) == IF j.t = "array" THEN j.a ELSE <<j>>

\* the body is of the preferred shape alone, names integer filter ids, and
\* repeats one of them or gives an intensity that is not an integer in [0, 100]
NewShapeOffends(body) ==
  /\ body.filters.t = "undefined"
  /\ body.filterId.t # "undefined"
  /\ \A i \in 1..Len(AsArray(body.filterId)) : IsIntegerNumber(AsArray(body.filterId)[i])
  /\ \/ HasDuplicate(AsArray(body.filterId))
     \/ /\ body.intensity.t # "undefined"
        /\ \E i \in 1..Len(AsArray(body.intensity)) : BadIntensity(AsArray(body.intensity)[i])

\* the body is of the legacy shape alone, and its items repeat a filter id or
\* give an intensity that is not an integer in [0, 100]
LegacyOffends(body) ==
  /\ body.filterId.t = "undefined"
  /\ body.intensity.t = "undefined"
  /\ body.filters.t = "array"
  /\ \/ HasDuplicate([i \in 1..Len(body.filters.a) |-> body.filters.a[i].filterId])
     \/ \E i \in 1..Len(body.filters.a) :
          /\ body.filters.a[i].intensity.t # "undefined"
          /\ BadIntensity(body.filters.a[i].intensity)

\* the stack the handler reads from the body repeats a filter id or holds an
\* intensity outside [0, 100]
StackOffends(body) ==
  /\ ~RequestStack(body).null
  /\ \/ HasDuplicate([i \in 1..Len(RequestStack(body).v) |-> RequestStack(body).v[i].filterId])
     \/ \E i \in 1..Len(RequestStack(body).v) :
          \/ RequestStack(body).v[i].intensity < 0
          \/ RequestStack(body).v[i].intensity > 100

\* C9: a request whose stack repeats a filter id, or holds an intensity that
\* is not an integer in [0, 100], at any position of a stack of any length up
\* to MaxStack, is answered 400 and leaves no version and no link row.
C9_OffendingStackRejected ==
  (/\ request.done
   /\ \/ NewShapeOffends(request.body)
      \/ LegacyOffends(request.body)
      \/ StackOffends(request.body))
  => /\ request.status = 400
     /\ imageVersions = {}
     /\ imageFilters = {}

\* C9 witness: a stack of three items whose last item alone offends (its
\* intensity is 101) was answered.
C9_Witness ==
  /\ request.done
  /\ request.imageId = 1
  /\ request.body.filterId = JArr(<<JNum(1), JNum(2), JNum(3)>>)
  /\ request.body.intensity = JArr(<<JNum(0), JNum(100), JNum(101)>>)
  /\ request.body.filters = Undefined


(***************************************************************************)
(* SpecTx: applyFiltersToImage and applyWatermarkToImage statement by      *)
(* statement, on two connections.  prisma.$transaction is called without   *)
(* an isolation level, so the store runs read committed: a statement sees  *)
(* the rows committed when it starts and the rows of its own transaction;  *)
(* a deleteMany waits for a row another transaction has deleted and not    *)
(* yet committed; nothing is retried.  Inserts are invisible to the other  *)
(* connection until the commit, so consecutive inserts are one step.       *)
(* tx[p] holds the uncommitted writes of connection p (version, rows,      *)
(* deleted), what it read (latestVersion), and for the properties the      *)
(* versions of the image its deleteMany could see (seen), the versions     *)
(* whose transactions ran while it ran (overlaps) and the instant of its   *)
(* commit (committedAt).                                                   *)
(***************************************************************************)
TxImageIds == {1, 2}

TxBodies ==
  { [filterId |-> JNum(1), intensity |-> Undefined, filters |-> Undefined],
    [filterId |-> JArr(<<JNum(2), JNum(1)>>), intensity |-> JNum(50), filters |-> Undefined] }

TxWatermarkIds == {1, 2}

TxActive(p) == tx[p].pc \in {"carry", "prune", "pruneWait", "commit"}

TxOthersActive(p) == { q \in Procs \ {p} : TxActive(q) }

\* the committed rows another connection has deleted and not yet committed
TxLockedByOthers(p) == UNION { tx[q].deleted : q \in TxOthersActive(p) }

\* the transaction timestamp: the clock, which may have ticked since another
\* running transaction began
TxTimestamps(p) == IF TxOthersActive(p) = {} THEN {now} ELSE {now, now + 1}

TxNoteOverlap(p, versionId, started) ==
  [q \in Procs |->
     IF q = p THEN started
     ELSE IF TxActive(q) THEN [tx[q] EXCEPT !.overlaps = @ \cup {versionId}]
     ELSE tx[q]]

txframe == <<images, uploads, overlapped, request, editLog, planvars>>

\* applyFiltersToImage, lines 91-109: tx.imageVersion.create and
\* tx.imageFilter.createMany
TxBeginFilters(p, imageId, body, versionId, ts) ==
  /\ ~TxActive(p)
  /\ ApplyFilterGate(imageId, body).status = 0
  /\ LET input == ApplyFilterInput(imageId, RequestStack(body).v)
     IN tx' = TxNoteOverlap(p, versionId,
                [pc |-> "prune", kind |-> "filters", imageId |-> imageId,
                 versionId |-> versionId, ts |-> ts,
                 version |-> [id |-> versionId, imageId |-> imageId,
                              editedUrl |-> input.editedUrl, createdAt |-> ts,
                              metadata |-> input.metadata],
                 rows |-> NewFilterRows(versionId, input.filters, ts),
                 deleted |-> {}, targets |-> {}, seen |-> {},
                 overlaps |-> { tx[q].versionId : q \in TxOthersActive(p) },
                 committedAt |-> 0])
  /\ usedVersionIds' = usedVersionIds \cup {versionId}
  /\ now' = ts
  /\ UNCHANGED <<dbvars, placementSeq, txframe>>

\* applyWatermarkToImage, lines 51-69: tx.watermark.findUnique and
\* tx.imageVersion.findFirst
TxBeginWatermark(p, imageId, watermarkId, versionId, ts, latestVersion) ==
  /\ ~TxActive(p)
  /\ ApplyWatermarkGate(imageId, watermarkId).status = 0
  /\ Len(Trim(getWatermarkPresetById(watermarkId).v.text)) # 0
  /\ tx' = TxNoteOverlap(p, versionId,
             [pc |-> "carry", kind |-> "watermark", imageId |-> imageId,
              versionId |-> versionId, ts |-> ts,
              watermarkId |-> watermarkId, latestVersion |-> latestVersion,
              rows |-> {}, deleted |-> {}, targets |-> {}, seen |-> {},
              overlaps |-> { tx[q].versionId : q \in TxOthersActive(p) },
              committedAt |-> 0])
  /\ usedVersionIds' = usedVersionIds \cup {versionId}
  /\ now' = ts
  /\ UNCHANGED <<dbvars, placementSeq, txframe>>

\* applyWatermarkToImage, lines 71-124: findMany of the previous placements,
\* then the version, the carried placements and the new placement
TxCarryForward(p) ==
  /\ tx[p].pc = "carry"
  /\ LET t == tx[p]
         previous == PreviousPlacements(imageVersionWatermarks, t.latestVersion)
         watermark == getWatermarkPresetById(t.watermarkId).v
     IN /\ tx' = [tx EXCEPT ![p] =
                    [t EXCEPT
                       !.pc = "prune",
                       !.rows = CarriedPlacements(previous, t.versionId, t.ts, placementSeq)
                                \cup { CreatedPlacement(watermark, previous, t.versionId,
                                                        t.ts, placementSeq) }]]
        /\ placementSeq' = placementSeq + Len(previous) + 1
  /\ UNCHANGED <<dbvars, usedVersionIds, now, txframe>>

\* the version row of a running transaction (written with its first insert)
TxVersion(t) ==
  IF t.kind = "filters" THEN t.version
  ELSE [id |-> t.versionId, imageId |-> t.imageId, createdAt |-> t.ts]

\* the committed rows of the other versions of the image that the deleteMany
\* of transaction t finds (lines 113-120 of filterModel.ts, 127-132 of
\* watermarkModel.ts)
TxStale(t) ==
  IF t.kind = "filters"
  THEN StaleFilterRows(imageVersions \cup {TxVersion(t)}, imageFilters, t.imageId, t.versionId)
  ELSE StalePlacements(imageVersions \cup {TxVersion(t)}, imageVersionWatermarks,
                       t.imageId, t.versionId)

TxCommittedRows(t) ==
  IF t.kind = "filters" THEN imageFilters ELSE imageVersionWatermarks

\* deleteMany: it deletes the rows it finds, or waits when another
\* transaction holds one of them
TxPrune(p) ==
  /\ tx[p].pc = "prune"
  /\ tx' = [tx EXCEPT ![p] =
              [tx[p] EXCEPT
                 !.seen = { v.id : v \in { w \in imageVersions : w.imageId = tx[p].imageId } },
                 !.targets = TxStale(tx[p]),
                 !.deleted = TxStale(tx[p]) \ TxLockedByOthers(p),
                 !.pc = IF TxStale(tx[p]) \cap TxLockedByOthers(p) = {}
                        THEN "commit" ELSE "pruneWait"]]
  /\ UNCHANGED <<dbvars, usedVersionIds, placementSeq, now, txframe>>

\* the waiting deleteMany goes on once the other transaction has ended: the
\* rows that one deleted are gone
TxPruneResume(p) ==
  /\ tx[p].pc = "pruneWait"
  /\ tx[p].targets \cap TxLockedByOthers(p) = {}
  /\ tx' = [tx EXCEPT ![p] =
              [tx[p] EXCEPT !.deleted = tx[p].targets \cap TxCommittedRows(tx[p]),
                            !.pc = "commit"]]
  /\ UNCHANGED <<dbvars, usedVersionIds, placementSeq, now, txframe>>

\* the callback returns and the transaction commits
TxCommit(p) ==
  /\ tx[p].pc = "commit"
  /\ LET t == tx[p]
         version == IF t.kind = "filters" THEN t.version
                    ELSE [id |-> t.versionId, imageId |-> t.imageId,
                          editedUrl |-> getImageById(t.imageId).v.originalUrl,
                          createdAt |-> t.ts,
                          metadata |->
                            [watermarkId |-> t.watermarkId,
                             watermarkIds |->
                               [i \in 1..Cardinality(t.rows) |->
                                  OrderBy(t.rows, PlacementBefore)[i].watermarkId]]]
     IN /\ imageVersions' = imageVersions \cup {version}
        /\ imageFilters' = IF t.kind = "filters"
                           THEN (imageFilters \ t.deleted) \cup t.rows ELSE imageFilters
        /\ imageVersionWatermarks' = IF t.kind = "watermark"
                                     THEN (imageVersionWatermarks \ t.deleted) \cup t.rows
                                     ELSE imageVersionWatermarks
  /\ tx' = [tx EXCEPT ![p] = [tx[p] EXCEPT !.pc = "committed", !.committedAt = now]]
  /\ now' = now + 1
  /\ UNCHANGED <<usedVersionIds, placementSeq, txframe>>

NextTx ==
  \/ \E p \in Procs, imageId \in TxImageIds, body \in TxBodies, versionId \in NextVersionIds :
       \E ts \in TxTimestamps(p) : TxBeginFilters(p, imageId, body, versionId, ts)
  \/ \E p \in Procs, imageId \in TxImageIds, watermarkId \in TxWatermarkIds,
        versionId \in NextVersionIds :
       \E ts \in TxTimestamps(p), latestVersion \in LatestByCreatedAt(imageVersions, imageId) :
         TxBeginWatermark(p, imageId, watermarkId, versionId, ts, latestVersion)
  \/ \E p \in Procs : TxCarryForward(p)
  \/ \E p \in Procs : TxPrune(p)
  \/ \E p \in Procs : TxPruneResume(p)
  \/ \E p \in Procs : TxCommit(p)

SpecTx == Init /\ [][NextTx]_vars


(***************************************************************************)
(* Properties of SpecTx.                                                   *)
(***************************************************************************)
\* two connections whose last transactions both committed, on one image, and
\* ran at the same time
TxBothCommitted(p, q) ==
  /\ p # q
  /\ tx[p].pc = "committed"
  /\ tx[q].pc = "committed"
  /\ tx[p].imageId = tx[q].imageId
  /\ tx[q].versionId \in tx[p].overlaps

\* C4: two applyEdit transactions on one image that overlap never both
\* commit after reading the same prior versions of the image, each having
\* pruned without seeing the version of the other.
C4_OverlappingEditsSerialized ==
  \A p, q \in Procs :
    TxBothCommitted(p, q) =>
      ~(/\ tx[p].seen = tx[q].seen
        /\ tx[q].versionId \notin tx[p].seen
        /\ tx[p].versionId \notin tx[q].seen)

\* the rows of one kind the versions of an image hold
TxRowsOfKind(kind, versionId) ==
  IF kind = "filters" THEN FilterLinksOf(imageFilters, versionId)
  ELSE PlacementsOf(imageVersionWatermarks, versionId)

\* C5: when two overlapping applyEdit transactions of one kind on one image
\* have both committed, the version of the transaction that committed last
\* is the only version of the image holding links of that kind, and
\* getLatestLinks of that kind returns exactly the links of that edit.
C5_LastCommittedEditWins ==
  \A p, q \in Procs :
    (/\ TxBothCommitted(p, q)
     /\ tx[p].kind = tx[q].kind
     /\ tx[p].committedAt > tx[q].committedAt)
    => /\ \A v \in VersionsOf(tx[p].imageId) :
            TxRowsOfKind(tx[p].kind, v.id) # {} => v.id = tx[p].versionId
       /\ TxRowsOfKind(tx[p].kind, tx[p].versionId) = tx[p].rows
       /\ IF tx[p].kind = "filters"
          THEN SeqToSet(getLatestFiltersForImage(imageVersions, imageFilters, tx[p].imageId))
               = tx[p].rows
          ELSE \A latestVersion \in LatestByCreatedAt(imageVersions, tx[p].imageId) :
                 SeqToSet(getLatestWatermarksForImage(imageVersionWatermarks, latestVersion))
                 = tx[p].rows

(***************************************************************************)
(* Properties of Spec: removal of a link and the history.                  *)
(***************************************************************************)
\* the latest version of an image under the order (createdAt, then id)
LatestIn(versions, imageId) ==
  LET mine == { v \in versions : v.imageId = imageId }
  IN { m \in mine : \A o \in mine \ {m} : VersionNewerById(m, o) }

LatestVersionIds(imageId) == { v.id : v \in LatestIn(imageVersions, imageId) }

\* C11: a removal of either kind that succeeds deletes exactly one link row,
\* attached to the current latest version of the image, and creates or
\* deletes no version; when the latest version has no link with the key the
\* removal finds nothing and deletes nothing, even if an older version still
\* holds such a link.
C11_RemovalHitsLatestVersionOnly ==
  \A imageId \in ImageIdInputs :
    /\ \A filterId \in FilterIdInputs :
         LET out == deleteLatestFilterFromImage(imageVersions, imageFilters, imageId, filterId)
             onLatest == { r \in imageFilters : /\ r.imageVersionId \in LatestVersionIds(imageId)
                                                /\ r.filterId = filterId }
         IN /\ { v.id : v \in out.imageVersions } = { v.id : v \in imageVersions }
            /\ out.imageFilters \subseteq imageFilters
            /\ out.found => /\ Cardinality(imageFilters \ out.imageFilters) = 1
                            /\ imageFilters \ out.imageFilters \subseteq onLatest
            /\ onLatest = {} => ~out.found /\ out.imageFilters = imageFilters
    /\ \A watermarkId \in WatermarkIdInputs :
         \A latest \in LatestPlacementChoices(imageVersions, imageVersionWatermarks,
                                              imageId, watermarkId) :
           LET out == deleteLatestWatermarkFromImage(imageVersionWatermarks, latest)
               onLatest == { p \in imageVersionWatermarks :
                               /\ p.imageVersionId \in LatestVersionIds(imageId)
                               /\ p.watermarkId = watermarkId }
           IN /\ out.imageVersionWatermarks \subseteq imageVersionWatermarks
              /\ out.found =>
                   /\ Cardinality(imageVersionWatermarks \ out.imageVersionWatermarks) = 1
                   /\ imageVersionWatermarks \ out.imageVersionWatermarks \subseteq onLatest
              /\ onLatest = {} =>
                   ~out.found /\ out.imageVersionWatermarks = imageVersionWatermarks


\* a step that deletes exactly one link row and creates or deletes no
\* version: a removal that succeeded
RemovalStep ==
  /\ { v.id : v \in imageVersions' } = { v.id : v \in imageVersions }
  /\ imageFilters' \subseteq imageFilters
  /\ imageVersionWatermarks' \subseteq imageVersionWatermarks
  /\ Cardinality(imageFilters \ imageFilters')
     + Cardinality(imageVersionWatermarks \ imageVersionWatermarks') = 1

\* the image a link row belongs to
ImageOfRow(r) == (CHOOSE v \in imageVersions : v.id = r.imageVersionId).imageId

\* C12: after a removal that succeeded, the metadata of the image's latest
\* version no longer lists the removed entry (a filter: neither in filters
\* nor in filterIds; a watermark: not in watermarkIds), and the metadata of
\* every other version is as it was.
C12_RemovalReconcilesMetadata ==
  [][RemovalStep =>
       /\ \A r \in imageFilters \ imageFilters' :
            LET latest == LatestIn(imageVersions', ImageOfRow(r))
            IN /\ \A v \in latest :
                    /\ "filters" \in DOMAIN v.metadata =>
                         \A i \in 1..Len(v.metadata.filters) :
                           v.metadata.filters[i].filterId # r.filterId
                    /\ "filterIds" \in DOMAIN v.metadata =>
                         r.filterId \notin SeqToSet(v.metadata.filterIds)
               /\ imageVersions' \ latest
                  = imageVersions \ LatestIn(imageVersions, ImageOfRow(r))
       /\ \A p \in imageVersionWatermarks \ imageVersionWatermarks' :
            LET latest == LatestIn(imageVersions', ImageOfRow(p))
            IN /\ \A v \in latest :
                    "watermarkIds" \in DOMAIN v.metadata =>
                      p.watermarkId \notin SeqToSet(v.metadata.watermarkIds)
               /\ imageVersions' \ latest
                  = imageVersions \ LatestIn(imageVersions, ImageOfRow(p))
    ]_vars


\* the edits of one image answered 201, oldest first
LogOf(imageId) ==
  LET IsMine(e) == e.imageId = imageId
  IN SelectSeq(editLog, IsMine)

\* no version of the image's edits has been deleted
NoVersionDeleted(imageId) ==
  \A i \in 1..Len(LogOf(imageId)) :
    \E v \in imageVersions : v.id = LogOf(imageId)[i].versionId

\* C13: after N edits of an image were answered 201 (applyFilters and
\* applyWatermark in any mix) and no version was deleted, the history of the
\* image (either list function) is exactly the N versions of those edits,
\* newest first, with strictly descending createdAt; removals in between
\* change neither the number nor the order.
C13_HistoryListsEveryEdit ==
  \A imageId \in ImageIdInputs :
    LET log == LogOf(imageId)
        history == listFilterHistoryForImage(imageVersions, imageId)
    IN NoVersionDeleted(imageId) =>
         /\ Len(history) = Len(log)
         /\ \A i \in 1..Len(log) : history[i].id = log[Len(log) + 1 - i].versionId
         /\ \A i, j \in 1..Len(history) : i < j => history[i].createdAt > history[j].createdAt
         /\ \A other \in listWatermarkHistoryForImage(imageVersions, imageId) :
              /\ Len(other) = Len(log)
              /\ \A i \in 1..Len(log) : other[i] = history[i]

\* C13 witness: an image with three edits of both kinds, none deleted, and
\* removals of both kinds in between: a filter was taken from an edit and no
\* placement is left.
C13_Witness ==
  \E imageId \in ImageIdInputs :
    /\ Len(LogOf(imageId)) = 3
    /\ NoVersionDeleted(imageId)
    /\ { LogOf(imageId)[i].kind : i \in 1..3 } = {"filters", "watermark"}
    /\ \E i \in 1..3 : LogOf(imageId)[i].removed # {}
    /\ \A v \in VersionsOf(imageId) : PlacementsOf(imageVersionWatermarks, v.id) = {}


\* the ids a version's metadata records: the filter ids of a filter edit
\* (filterIds, which the items of filters must repeat) or the watermark id of
\* a watermark edit (watermarkId, which watermarkIds must end with); <<0>>
\* stands for a document that records them inconsistently
RecordedIds(md) ==
  IF "filterIds" \in DOMAIN md
  THEN IF md.filterIds = [i \in 1..Len(md.filters) |-> md.filters[i].filterId]
       THEN md.filterIds ELSE <<0>>
  ELSE IF md.watermarkIds[Len(md.watermarkIds)] = md.watermarkId
       THEN <<md.watermarkId>> ELSE <<0>>

RecordedKind(md) == IF "filterIds" \in DOMAIN md THEN "filters" ELSE "watermark"

\* the ids of a logged edit that no later removal took away
IdsLeft(e) ==
  LET IsLeft(id) == id \notin e.removed
  IN SelectSeq(e.ids, IsLeft)

\* the history of an image, oldest first
HistoryOldestFirst(imageId) ==
  LET history == listFilterHistoryForImage(imageVersions, imageId)
  IN [i \in 1..Len(history) |-> history[Len(history) + 1 - i]]

\* C14 as stated: reading the history oldest to newest, the ids recorded in
\* each version's metadata are the ids of the edits applied, in order, after
\* any sequence of applyFilters, applyWatermark and removals.
C14_MetadataReconstructsEdits ==
  \A imageId \in ImageIdInputs :
    NoVersionDeleted(imageId) =>
      /\ Len(HistoryOldestFirst(imageId)) = Len(LogOf(imageId))
      /\ \A i \in 1..Len(LogOf(imageId)) :
           /\ RecordedKind(HistoryOldestFirst(imageId)[i].metadata) = LogOf(imageId)[i].kind
           /\ RecordedIds(HistoryOldestFirst(imageId)[i].metadata) = LogOf(imageId)[i].ids

\* C14, amended: the ids recorded in each version's metadata are the ids of
\* the edit applied, in order, less the filter ids that removals took from
\* that edit while its version was the latest; a watermark removal rewrites
\* nothing.
C14_MetadataReconstructsEditsLessRemovals ==
  \A imageId \in ImageIdInputs :
    NoVersionDeleted(imageId) =>
      /\ Len(HistoryOldestFirst(imageId)) = Len(LogOf(imageId))
      /\ \A i \in 1..Len(LogOf(imageId)) :
           /\ RecordedKind(HistoryOldestFirst(imageId)[i].metadata) = LogOf(imageId)[i].kind
           /\ RecordedIds(HistoryOldestFirst(imageId)[i].metadata) = IdsLeft(LogOf(imageId)[i])

\* C14 witness: an image with edits of both kinds, one of them a stack of two
\* filters from which a removal took one, and a watermark edit whose
\* placement a removal deleted.
C14_Witness ==
  \E imageId \in ImageIdInputs :
    /\ NoVersionDeleted(imageId)
    /\ \E i, j \in 1..Len(LogOf(imageId)) :
         /\ LogOf(imageId)[i].kind = "filters"
         /\ Len(LogOf(imageId)[i].ids) = 2
         /\ Cardinality(LogOf(imageId)[i].removed) = 1
         /\ LogOf(imageId)[j].kind = "watermark"
    /\ \A v \in VersionsOf(imageId) : PlacementsOf(imageVersionWatermarks, v.id) = {}


(***************************************************************************)
(* Properties of Spec: the entitlement gate of applyFilters.               *)
(***************************************************************************)
\* the plan of the user's active subscription (the newest, should there be
\* several), read from the tables
ActivePlanIds(userId) ==
  LET active == { s \in subscriptions : s.userId = userId /\ s.status = "active" }
  IN { s.planId : s \in { a \in active : \A o \in active \ {a} :
                            \/ a.createdAt > o.createdAt
                            \/ (a.createdAt = o.createdAt /\ a.id > o.id) } }

\* every filter id is in the filter set of the user's active plan
PlanAllowsFilters(userId, ids) ==
  \E planId \in ActivePlanIds(userId) :
    \A id \in ids : [planId |-> planId, filterId |-> id] \in subscriptionPlanFilters

\* C15: applyFilters creates a version only if the owner of the image has an
\* active subscription and every filter id of the stack is in that plan's
\* filter set; a well-formed request that fails this is answered by the gate,
\* 409 (no active subscription) or 403 (filter not allowed, also when a
\* single filter of a longer stack is not allowed), the transaction is not
\* started and the tables stay as they were.
C15_FilterEditNeedsEntitlement ==
  \A imageId \in ImageIdInputs, body \in EditBodies, versionId \in NextVersionIds :
    LET out == applyFilterHandler(imageVersions, imageFilters, imageId, body, versionId, now)
        image == getImageById(imageId)
        stack == RequestStack(body)
        ids == { stack.v[i].filterId : i \in 1..Len(stack.v) }
        unchanged == /\ out.imageVersions = imageVersions
                     /\ out.imageFilters = imageFilters
                     /\ ApplyFilterGate(imageId, body) = out.res
    IN /\ out.imageVersions # imageVersions =>
            /\ out.res.status = 201
            /\ ActivePlanIds(image.v.userId) # {}
            /\ PlanAllowsFilters(image.v.userId, ids)
       /\ (/\ ~image.null
           /\ ~stack.null
           /\ ValidateStack(stack.v, 1, {}) = "ok"
           /\ ids \subseteq Filters) =>
            /\ ActivePlanIds(image.v.userId) = {} =>
                 /\ out.res = Fail(409, "user has no active subscription plan")
                 /\ unchanged
            /\ (ActivePlanIds(image.v.userId) # {} /\ ~PlanAllowsFilters(image.v.userId, ids)) =>
                 /\ out.res = Fail(403, "filter not allowed for user's subscription plan")
                 /\ unchanged

\* C15 witness: image 1, whose owner is on Pro (filters 1 and 2), has a
\* version made by a filter edit, and the stack [1, 3] on it is answered 403;
\* an edit on image 4, whose owner has no active subscription, is answered
\* 409.
C15_Witness ==
  /\ \E v \in VersionsOf(1) : "filterIds" \in DOMAIN v.metadata
  /\ \E versionId \in NextVersionIds :
       /\ applyFilterHandler(imageVersions, imageFilters, 1,
                             [filterId |-> JArr(<<JNum(1), JNum(3)>>), intensity |-> Undefined,
                              filters |-> Undefined],
                             versionId, now).res.status = 403
       /\ applyFilterHandler(imageVersions, imageFilters, 4,
                             [filterId |-> JNum(1), intensity |-> Undefined,
                              filters |-> Undefined],
                             versionId, now).res.status = 409


(***************************************************************************)
(* SpecPlan: the edit handlers next to the requests that change what a     *)
(* user is entitled to.  setUserActivePlan (src/unnamed/part_001) and      *)
(* replacePlanFilters (src/unnamed/part_002) are one transaction each.  An *)
(* edit handler first reads the entitlements with the plain client         *)
(* (canUserUseFilter, getUserPlanFeatures) and only then opens its         *)
(* transaction, so its two parts are two steps and a plan change may       *)
(* commit in between.  tx[p] holds the request connection p is handling:   *)
(* "gated" after the checks passed, "answered" with the status otherwise   *)
(* and after the transaction.                                              *)
(***************************************************************************)
MaxPlanChanges == 1

PlanIdInputs == {1, 2, 3, 4, 5, 6, 7, 8, 9}

\* the plans whose filter set is replaced: Pro and a plan that does not exist
PlanFilterPlanIds == {3, 9}

\* one request in flight is enough here: edits that overlap are SpecTx
PlanProcs == {1}

PlanUserIds == {1, 2, 5}

PlanImageIds == {1, 2}

PlanBodies ==
  { [filterId |-> JNum(1), intensity |-> Undefined, filters |-> Undefined],
    [filterId |-> JArr(<<JNum(1), JNum(2)>>), intensity |-> Undefined, filters |-> Undefined] }

\* filterIds of PUT /plans/:planId/filters
PlanFilterIdInputs == { <<>>, <<1>>, <<1, 2>>, <<2, 4>> }

\* addPeriod on the model's clock, where a month is MonthLength ticks: a
\* yearly plan runs twelve months, every other period a plan of the model has
\* is monthly (the default branch)
addPeriod(input, period) ==
  IF period \in {"yearly", "annual"} THEN input + 12 * MonthLength
  ELSE input + MonthLength

\* setUserActivePlan as one transaction on table subscriptions
setUserActivePlan(subs, input, ts) ==
  IF input.userId \notin userProfiles
  THEN [ok |-> FALSE, reason |-> "USER_NOT_FOUND", subscriptions |-> subs]
  ELSE IF ~\E p \in SubscriptionPlans : p.id = input.planId
  THEN [ok |-> FALSE, reason |-> "PLAN_NOT_FOUND", subscriptions |-> subs]
  ELSE LET cancelled == { IF s.userId = input.userId /\ s.status = "active"
                          THEN [s EXCEPT !.status = "cancelled", !.currentPeriodEnd = ts]
                          ELSE s : s \in subs }
           created == [id |-> Cardinality(subs) + 1, userId |-> input.userId,
                       planId |-> input.planId, status |-> "active", createdAt |-> ts,
                       currentPeriodStart |-> ts,
                       currentPeriodEnd |-> addPeriod(ts, PlanById(input.planId).period)]
       IN [ok |-> TRUE, subscription |-> created, subscriptions |-> cancelled \cup {created}]

\* replacePlanFilters as one transaction on table subscription_plan_filters
replacePlanFilters(planFilters, input) ==
  IF ~\E p \in SubscriptionPlans : p.id = input.planId
  THEN [ok |-> FALSE, reason |-> "PLAN_NOT_FOUND", subscriptionPlanFilters |-> planFilters]
  ELSE IF \E i \in 1..Len(input.filterIds) : input.filterIds[i] \notin Filters
  THEN [ok |-> FALSE, reason |-> "FILTER_NOT_FOUND", subscriptionPlanFilters |-> planFilters]
  ELSE [ok |-> TRUE,
        subscriptionPlanFilters |->
          { l \in planFilters : l.planId # input.planId }
          \cup { [planId |-> input.planId, filterId |-> input.filterIds[i]] :
                   i \in 1..Len(input.filterIds) }]

planframe == <<images, uploads, overlapped, request>>

SetUserActivePlan(userId, planId) ==
  /\ Cardinality(subscriptions) < Cardinality(Subscriptions) + MaxPlanChanges
  /\ subscriptions' = setUserActivePlan(subscriptions,
                                        [userId |-> userId, planId |-> planId], now).subscriptions
  /\ UNCHANGED <<subscriptionPlanFilters, userProfiles, payments, dbvars, usedVersionIds,
                 placementSeq, now, tx, editLog, planframe>>

ReplacePlanFilters(planId, filterIds) ==
  /\ subscriptionPlanFilters' =
       replacePlanFilters(subscriptionPlanFilters,
                          [planId |-> planId, filterIds |-> filterIds]).subscriptionPlanFilters
  /\ UNCHANGED <<subscriptions, userProfiles, payments, dbvars, usedVersionIds,
                 placementSeq, now, tx, editLog, planframe>>

PlanAnswered(status) == [pc |-> "answered", status |-> status]

\* applyFilterHandler, lines 114-178: the checks before the transaction
PlanCheckFilters(p, imageId, body) ==
  /\ tx[p].pc # "gated"
  /\ tx' = [tx EXCEPT ![p] =
              IF ApplyFilterGate(imageId, body).status # 0
              THEN PlanAnswered(ApplyFilterGate(imageId, body).status)
              ELSE [pc |-> "gated", kind |-> "filters", imageId |-> imageId, body |-> body]]
  /\ UNCHANGED <<planvars, dbvars, usedVersionIds, placementSeq, now, editLog, planframe>>

\* applyFilterHandler, lines 180-201: applyFiltersToImage and the response
PlanWriteFilters(p, versionId) ==
  /\ tx[p].pc = "gated"
  /\ tx[p].kind = "filters"
  /\ LET created == applyFiltersToImage(imageVersions, imageFilters,
                                        ApplyFilterInput(tx[p].imageId, RequestStack(tx[p].body).v),
                                        versionId, now)
     IN /\ imageVersions' = created.imageVersions
        /\ imageFilters' = created.imageFilters
        /\ tx' = [tx EXCEPT ![p] = PlanAnswered(IF created.ok THEN 201 ELSE 500)]
        /\ usedVersionIds' = IF created.ok THEN usedVersionIds \cup {versionId} ELSE usedVersionIds
        /\ now' = IF created.ok THEN now + 1 ELSE now
        /\ editLog' = IF created.ok
                      THEN Append(editLog, LoggedEdit(tx[p].imageId, versionId, "filters",
                                                      StackFilterIds(RequestStack(tx[p].body).v)))
                      ELSE editLog
  /\ UNCHANGED <<imageVersionWatermarks, placementSeq, planvars, planframe>>

\* applyWatermarksHandler, lines 138-153: the checks before the transaction
PlanCheckWatermark(p, imageId, watermarkId) ==
  /\ tx[p].pc # "gated"
  /\ tx' = [tx EXCEPT ![p] =
              IF ApplyWatermarkGate(imageId, watermarkId).status # 0
              THEN PlanAnswered(ApplyWatermarkGate(imageId, watermarkId).status)
              ELSE [pc |-> "gated", kind |-> "watermark", imageId |-> imageId,
                    watermarkId |-> watermarkId]]
  /\ UNCHANGED <<planvars, dbvars, usedVersionIds, placementSeq, now, editLog, planframe>>

\* applyWatermarksHandler, lines 155-161: applyWatermarkToImage and the response
PlanWriteWatermark(p, versionId, latestVersion) ==
  /\ tx[p].pc = "gated"
  /\ tx[p].kind = "watermark"
  /\ LET created == applyWatermarkToImage(
                      imageVersions, imageVersionWatermarks,
                      [imageId |-> tx[p].imageId, watermarkId |-> tx[p].watermarkId,
                       editedUrl |-> getImageById(tx[p].imageId).v.originalUrl],
                      versionId, now, placementSeq, latestVersion)
     IN /\ imageVersions' = created.imageVersions
        /\ imageVersionWatermarks' = created.imageVersionWatermarks
        /\ placementSeq' = created.placementSeq
        /\ tx' = [tx EXCEPT ![p] = PlanAnswered(IF created.ok THEN 201
                                                ELSE IF created.code = "NOT_FOUND" THEN 404
                                                ELSE 500)]
        /\ usedVersionIds' = IF created.ok THEN usedVersionIds \cup {versionId} ELSE usedVersionIds
        /\ now' = IF created.ok THEN now + 1 ELSE now
        /\ editLog' = IF created.ok
                      THEN Append(editLog, LoggedEdit(tx[p].imageId, versionId, "watermark",
                                                      <<tx[p].watermarkId>>))
                      ELSE editLog
  /\ UNCHANGED <<imageFilters, planvars, planframe>>

NextPlan ==
  \/ \E userId \in PlanUserIds, planId \in PlanIdInputs : SetUserActivePlan(userId, planId)
  \/ \E planId \in PlanFilterPlanIds, filterIds \in PlanFilterIdInputs :
       ReplacePlanFilters(planId, filterIds)
  \/ \E p \in PlanProcs, imageId \in PlanImageIds, body \in PlanBodies :
       PlanCheckFilters(p, imageId, body)
  \/ \E p \in PlanProcs, versionId \in NextVersionIds : PlanWriteFilters(p, versionId)
  \/ \E p \in PlanProcs, imageId \in PlanImageIds, watermarkId \in {1, 3} :
       PlanCheckWatermark(p, imageId, watermarkId)
  \/ \E p \in PlanProcs, versionId \in NextVersionIds :
       /\ tx[p].pc = "gated"
       /\ \E latestVersion \in LatestByCreatedAt(imageVersions, tx[p].imageId) :
            PlanWriteWatermark(p, versionId, latestVersion)

SpecPlan == Init /\ [][NextPlan]_vars


(***************************************************************************)
(* Properties of SpecPlan.                                                 *)
(***************************************************************************)
\* the watermark flag, as stored, of the plan of the user's active
\* subscription
StoredWatermarkFlags(userId) ==
  { p.featuresJson.watermark : p \in { q \in SubscriptionPlans : q.id \in ActivePlanIds(userId) } }

\* the stored flags that mean true: the boolean, and the string " True"
TrueFlags == { JBool(TRUE), JStr(<<" ", "T", "r", "u", "e">>) }

\* the stored flags that mean false
FalseFlags == { JBool(FALSE), JStr(<<"F", "A", "L", "S", "E", " ">>) }

\* C16: applyWatermark creates a version only if the watermark flag of the
\* owner's active plan decodes to true (the boolean true, or a string that is
\* "true" once trimmed and lower-cased); a flag that is false, missing, null,
\* or neither a boolean nor such a string decodes to false or to unknown, the
\* request is answered 403 and nothing is written.
C16_WatermarkNeedsFlagTrue ==
  /\ \A p \in SubscriptionPlans :
       toOptionalBoolean(p.featuresJson.watermark)
       = IF p.featuresJson.watermark \in TrueFlags THEN Some(TRUE)
         ELSE IF p.featuresJson.watermark \in FalseFlags THEN Some(FALSE)
         ELSE Null
  /\ \A imageId \in ImageIdInputs, watermarkId \in WatermarkIdInputs, versionId \in NextVersionIds :
       \A latestVersion \in LatestByCreatedAt(imageVersions, imageId) :
         LET out == applyWatermarksHandler(imageVersions, imageVersionWatermarks, placementSeq,
                                           imageId, watermarkId, versionId, now, latestVersion)
             flags == StoredWatermarkFlags(getImageById(imageId).v.userId)
         IN /\ out.imageVersions # imageVersions =>
                 /\ out.res.status = 201
                 /\ flags # {}
                 /\ flags \subseteq TrueFlags
            /\ (/\ ~getImageById(imageId).null
                /\ flags # {}
                /\ flags \cap TrueFlags = {}) =>
                 /\ out.res = Fail(403, "watermarks not allowed for user's subscription plan")
                 /\ out.imageVersions = imageVersions
                 /\ out.imageVersionWatermarks = imageVersionWatermarks
                 /\ out.placementSeq = placementSeq

\* C16 witness: the owner of image 1 got a watermark edit through while on
\* Pro and is now on the plan whose flag is the string "yes".
C16_Witness ==
  /\ \E v \in VersionsOf(1) : "watermarkId" \in DOMAIN v.metadata
  /\ StoredWatermarkFlags(1) = { JStr(<<"y", "e", "s">>) }
  /\ usedVersionIds # VersionIds


\* C18: the entitlement check that gates an edit sees the same state as the
\* write: in every execution, with plan filter sets and active subscriptions
\* changing in between too, each version committed was permitted by its
\* owner's entitlements in the state in which its rows were written.
C18_VersionPermittedWhenWritten ==
  [][\A v \in imageVersions' \ imageVersions :
       LET owner == getImageById(v.imageId).v.userId
       IN IF "filterIds" \in DOMAIN v.metadata
          THEN PlanAllowsFilters(owner, SeqToSet(v.metadata.filterIds))
          ELSE /\ StoredWatermarkFlags(owner) # {}
               /\ StoredWatermarkFlags(owner) \subseteq TrueFlags
    ]_vars


(***************************************************************************)
(* Properties of SpecUpload: users without an active subscription.         *)
(***************************************************************************)
\* C17: for a user with no active subscription, an upload and a quota check
\* are answered 409 (no active subscription) whatever the user's usage of
\* the month; no image is created for such a user, who is never taken for a
\* user without limits.
C17_NoSubscriptionNoUpload ==
  /\ \A userId \in UserProfiles :
       ActivePlanIds(userId) = {} =>
         /\ \A sizeBytes \in UploadSizes :
              UploadGate(images, userId, sizeBytes, now)
              = Fail(409, "user has no active subscription plan")
         /\ getUserQuotaHandler(images, userId, now)
            = Fail(409, "user has no active subscription plan")
  /\ \A img \in images \ SeedImages : ActivePlanIds(img.userId) # {}
  /\ \A p \in Procs :
       uploads[p].pc \in {"checked", "created"} => ActivePlanIds(uploads[p].userId) # {}

\* C17 witness: user 4, who has no active subscription, has used nothing in
\* the current month while other users have uploaded, and gets 409 from both
\* handlers.
C17_Witness ==
  /\ ActivePlanIds(4) = {}
  /\ getUserCurrentMonthUsage(images, 4, now).imageCount = 0
  /\ images # SeedImages
  /\ UploadGate(images, 4, 1, now).status = 409
  /\ getUserQuotaHandler(images, 4, now).status = 409
  /\ getUserQuotaHandler(images, 1, now).status = 200


(***************************************************************************)
(* Properties of Spec: the frame of an edit.                               *)
(***************************************************************************)
\* of the tables an operation leaves, what does not belong to the image: the
\* versions of other images and the rows attached to them
RowsOfOthers(versions, rows, placements, imageId) ==
  LET mine == { v.id : v \in { w \in versions \cup imageVersions : w.imageId = imageId } }
  IN [imageVersions |-> { v \in versions : v.imageId # imageId },
      imageFilters |-> { r \in rows : r.imageVersionId \notin mine },
      imageVersionWatermarks |-> { p \in placements : p.imageVersionId \notin mine }]

\* C19: applyFilters, applyWatermark and the removals on an image leave every
\* version, filter link and placement of every other image as it was; the
\* pruning deletes only rows attached to versions of that image.
C19_EditTouchesOneImage ==
  \A imageId \in ImageIdInputs :
    LET before == RowsOfOthers(imageVersions, imageFilters, imageVersionWatermarks, imageId)
    IN /\ \A body \in EditBodies, versionId \in NextVersionIds :
            LET out == applyFilterHandler(imageVersions, imageFilters, imageId, body,
                                          versionId, now)
            IN RowsOfOthers(out.imageVersions, out.imageFilters, imageVersionWatermarks,
                            imageId) = before
       /\ \A watermarkId \in WatermarkIdInputs, versionId \in NextVersionIds :
            \A latestVersion \in LatestByCreatedAt(imageVersions, imageId) :
              LET out == applyWatermarksHandler(imageVersions, imageVersionWatermarks,
                                                placementSeq, imageId, watermarkId,
                                                versionId, now, latestVersion)
              IN RowsOfOthers(out.imageVersions, imageFilters, out.imageVersionWatermarks,
                              imageId) = before
       /\ \A filterId \in FilterIdInputs :
            LET out == deleteAppliedFilterHandler(imageVersions, imageFilters, imageId, filterId)
            IN RowsOfOthers(out.imageVersions, out.imageFilters, imageVersionWatermarks,
                            imageId) = before
       /\ \A watermarkId \in WatermarkIdInputs :
            \A latest \in LatestPlacementChoices(imageVersions, imageVersionWatermarks,
                                                 imageId, watermarkId) :
              LET out == deleteLatestWatermarksHandler(imageVersionWatermarks, imageId, latest)
              IN RowsOfOthers(imageVersions, imageFilters, out.imageVersionWatermarks,
                              imageId) = before

\* C19 witness: image 1 holds filter links and image 2 holds placements, both
\* on versions older than a later edit of the other image.
C19_Witness ==
  \E a, c \in VersionsOf(1), b \in VersionsOf(2) :
    /\ a.createdAt < b.createdAt
    /\ b.createdAt < c.createdAt
    /\ PlacementsOf(imageVersionWatermarks, b.id) # {}
    /\ FilterLinksOf(imageFilters, c.id) # {}


(***************************************************************************)
(* Properties of SpecTx: which version is the latest.                      *)
(***************************************************************************)
\* C20: the latest version of an image is its greatest version in the order
\* (createdAt, then id), and everything that resolves it picks that version,
\* also when two versions have the same createdAt: the latest links of both
\* kinds, the read of the prior placements in applyWatermarkToImage, the
\* removals of both kinds, and the head and order of the history.
C20_OneLatestVersion ==
  \A imageId \in TxImageIds :
    VersionsOf(imageId) # {} =>
      LET latest == CHOOSE v \in VersionsOf(imageId) :
                      \A o \in VersionsOf(imageId) \ {v} : VersionNewerById(v, o)
          history == listFilterHistoryForImage(imageVersions, imageId)
      IN /\ history[1] = latest
         /\ \A i, j \in 1..Len(history) : i < j => VersionNewerById(history[i], history[j])
         /\ listWatermarkHistoryForImage(imageVersions, imageId) = {history}
         /\ SeqToSet(getLatestFiltersForImage(imageVersions, imageFilters, imageId))
            = FilterLinksOf(imageFilters, latest.id)
         /\ LatestByCreatedAt(imageVersions, imageId) = {Some(latest)}
         /\ \A latestVersion \in LatestByCreatedAt(imageVersions, imageId) :
              /\ SeqToSet(getLatestWatermarksForImage(imageVersionWatermarks, latestVersion))
                 = PlacementsOf(imageVersionWatermarks, latest.id)
              /\ SeqToSet(PreviousPlacements(imageVersionWatermarks, latestVersion))
                 = PlacementsOf(imageVersionWatermarks, latest.id)
         /\ \A filterId \in FilterIdInputs :
              imageFilters \ deleteLatestFilterFromImage(imageVersions, imageFilters,
                                                         imageId, filterId).imageFilters
              \subseteq FilterLinksOf(imageFilters, latest.id)
         /\ \A watermarkId \in WatermarkIdInputs :
              \A choice \in LatestPlacementChoices(imageVersions, imageVersionWatermarks,
                                                   imageId, watermarkId) :
                imageVersionWatermarks
                  \ deleteLatestWatermarkFromImage(imageVersionWatermarks, choice).imageVersionWatermarks
                \subseteq PlacementsOf(imageVersionWatermarks, latest.id)


(***************************************************************************)
(* Properties of Spec: what an edit and a version deletion do to the       *)
(* versions.                                                               *)
(***************************************************************************)
\* C21: every edit answered 201 (applyFilters or applyWatermark) adds exactly
\* one version and changes no other; the new version is the latest version
\* of its image and holds the links of the edit, which the latest-links
\* query of that kind returns; this is so too when the request repeats the
\* previous edit; and a step that removes a version is an explicit version
\* deletion.
C21_EditAddsOneLatestVersion ==
  [][/\ Len(editLog') = Len(editLog) + 1 =>
          LET e == editLog'[Len(editLog')]
              added == imageVersions' \ imageVersions
          IN /\ imageVersions \subseteq imageVersions'
             /\ Cardinality(added) = 1
             /\ \A v \in added :
                  /\ v.id = e.versionId
                  /\ v.imageId = e.imageId
                  /\ LatestIn(imageVersions', e.imageId) = {v}
                  /\ IF e.kind = "filters"
                     THEN /\ FilterLinksOf(imageFilters', v.id) # {}
                          /\ SeqToSet(getLatestFiltersForImage(imageVersions', imageFilters',
                                                               e.imageId))
                             = FilterLinksOf(imageFilters', v.id)
                          /\ FilterLinksOf(imageFilters', v.id) \cap imageFilters = {}
                     ELSE /\ PlacementsOf(imageVersionWatermarks', v.id) # {}
                          /\ \A latestVersion \in LatestByCreatedAt(imageVersions', e.imageId) :
                               SeqToSet(getLatestWatermarksForImage(imageVersionWatermarks',
                                                                    latestVersion))
                               = PlacementsOf(imageVersionWatermarks', v.id)
                          /\ PlacementsOf(imageVersionWatermarks', v.id)
                             \cap imageVersionWatermarks = {}
     /\ ~({ v.id : v \in imageVersions } \subseteq { v.id : v \in imageVersions' }) =>
          \E imageId \in ImageIdInputs, versionId \in VersionIds :
            /\ deleteImageVersionHandler(imageVersions, imageFilters, imageVersionWatermarks,
                                         imageId, versionId).res.status = 204
            /\ DeleteImageVersion(imageId, versionId)
    ]_vars

\* C21 witness: the same stack was applied twice in a row to one image: two
\* versions exist, and the links are on the second.
C21_Witness ==
  \E i \in 1..Len(editLog) - 1 :
    /\ editLog[i].imageId = editLog[i + 1].imageId
    /\ editLog[i].kind = "filters"
    /\ editLog[i + 1].kind = "filters"
    /\ editLog[i].ids = editLog[i + 1].ids
    /\ editLog[i].removed = {}
    /\ \E a, b \in imageVersions :
         /\ a.id = editLog[i].versionId
         /\ b.id = editLog[i + 1].versionId
         /\ a.metadata = b.metadata
         /\ FilterLinksOf(imageFilters, a.id) = {}
         /\ FilterLinksOf(imageFilters, b.id) # {}

\* C22: deleting a version explicitly leaves no filter link and no placement
\* that references it, and leaves every other version and the link rows of
\* every other version as they were; a version id that is not a version of
\* the image named in the path is answered 404 and nothing changes.  In
\* every reachable state each link row and each placement references a
\* version that exists.
C22_VersionDeletionCascades ==
  /\ \A r \in imageFilters : \E v \in imageVersions : v.id = r.imageVersionId
  /\ \A p \in imageVersionWatermarks : \E v \in imageVersions : v.id = p.imageVersionId
  /\ \A imageId \in ImageIdInputs, versionId \in VersionIds :
       LET out == deleteImageVersionHandler(imageVersions, imageFilters,
                                            imageVersionWatermarks, imageId, versionId)
           mine == { v \in imageVersions : v.id = versionId /\ v.imageId = imageId }
       IN IF mine # {}
          THEN /\ out.res.status = 204
               /\ out.imageVersions = imageVersions \ mine
               /\ \A r \in out.imageFilters : r.imageVersionId # versionId
               /\ \A p \in out.imageVersionWatermarks : p.imageVersionId # versionId
               /\ \A r \in imageFilters :
                    r.imageVersionId # versionId => r \in out.imageFilters
               /\ \A p \in imageVersionWatermarks :
                    p.imageVersionId # versionId => p \in out.imageVersionWatermarks
               /\ out.imageFilters \subseteq imageFilters
               /\ out.imageVersionWatermarks \subseteq imageVersionWatermarks
          ELSE /\ out.res.status = 404
               /\ out.imageVersions = imageVersions
               /\ out.imageFilters = imageFilters
               /\ out.imageVersionWatermarks = imageVersionWatermarks

\* a version that held links has been deleted, a version of image 1 with
\* links and a version of image 2 with placements remain, and the version of
\* image 2 is asked for under image 1
C22_Witness ==
  /\ \E versionId \in usedVersionIds : \A v \in imageVersions : v.id # versionId
  /\ \E v \in imageVersions, w \in imageVersions :
       /\ v.imageId = 1 /\ w.imageId = 2
       /\ \E r \in imageFilters : r.imageVersionId = v.id
       /\ \E p \in imageVersionWatermarks : p.imageVersionId = w.id
       /\ deleteImageVersionHandler(imageVersions, imageFilters, imageVersionWatermarks,
                                    1, w.id).res.status = 404


(***************************************************************************)
(* Properties of Spec: how a blank watermark preset is refused.            *)
(***************************************************************************)
\* the presets that exist and whose text is empty or whitespace only
BlankPresetIds == { w.id : w \in { x \in Watermarks : Len(Trim(x.text)) = 0 } }

\* C23: applying an existing preset whose text is empty or whitespace only
\* fails with an error of its own kind: the transaction throws
\* INVALID_WATERMARK, writes nothing, and the request is answered with an
\* error that is neither the not-found answer nor the generic internal error.
C23_BlankPresetHasOwnError ==
  \A imageId \in ImageIdInputs, watermarkId \in BlankPresetIds,
     versionId \in NextVersionIds :
    ApplyWatermarkGate(imageId, watermarkId).status = 0 =>
      \A latestVersion \in LatestByCreatedAt(imageVersions, imageId) :
        LET created == applyWatermarkToImage(
                         imageVersions, imageVersionWatermarks,
                         [imageId |-> imageId, watermarkId |-> watermarkId,
                          editedUrl |-> getImageById(imageId).v.originalUrl],
                         versionId, now, placementSeq, latestVersion)
            out == applyWatermarksHandler(imageVersions, imageVersionWatermarks,
                                          placementSeq, imageId, watermarkId,
                                          versionId, now, latestVersion)
        IN /\ ~created.ok
           /\ created.code = "INVALID_WATERMARK"
           /\ out.imageVersions = imageVersions
           /\ out.imageVersionWatermarks = imageVersionWatermarks
           /\ out.res.status \notin {201, 404}
           /\ out.res # Fail(500, "internal error")


(***************************************************************************)
(* Properties of SpecUpload: which subscription the gates resolve.         *)
(***************************************************************************)
\* the subscriptions of a user whose period contains the current time
CurrentSubscriptions(userId) ==
  { s \in subscriptions :
      s.userId = userId /\ s.currentPeriodStart <= now /\ now < s.currentPeriodEnd }

\* the most recent of a non-empty set of subscriptions
MostRecent(subs) ==
  CHOOSE s \in subs : \A o \in subs \ {s} :
    \/ s.createdAt > o.createdAt
    \/ (s.createdAt = o.createdAt /\ s.id > o.id)

\* the three gates resolve the same plan for a user, or none of them does
GatesAgree(userId) ==
  LET limits == getUserUploadLimits(userId)
      access == getUserPlanFeatures(userId)
      active == FindActiveSubscription(userId)
  IN /\ limits.null <=> ~access.ok
     /\ limits.null <=> canUserUseFilter(userId, 1) = "NO_ACTIVE_SUBSCRIPTION"
     /\ ~limits.null =>
          /\ limits.v.planId = access.plan.id
          /\ limits.v.planId = active.v.planId
          /\ \A filterId \in FilterIdInputs :
               canUserUseFilter(userId, filterId) = "ok" <=>
                 [planId |-> limits.v.planId, filterId |-> filterId]
                   \in subscriptionPlanFilters

\* C24: the entitlement every gate uses (filter permission, watermark
\* feature, upload quota) is that of the plan of the user's most recent
\* subscription whose period [currentPeriodStart, currentPeriodEnd) contains
\* the current time; a user none of whose subscriptions is in its period is
\* granted nothing; the three gates resolve the same plan.
C24_GatesResolvePlanByPeriod ==
  \A userId \in UserIdInputs :
    /\ GatesAgree(userId)
    /\ IF CurrentSubscriptions(userId) = {}
       THEN /\ getUserUploadLimits(userId).null
            /\ ~getUserPlanFeatures(userId).ok
            /\ \A filterId \in FilterIdInputs :
                 canUserUseFilter(userId, filterId) = "NO_ACTIVE_SUBSCRIPTION"
       ELSE /\ ~getUserUploadLimits(userId).null
            /\ getUserUploadLimits(userId).v.planId =
                 MostRecent(CurrentSubscriptions(userId)).planId


(***************************************************************************)
(* Properties of SpecUpload: how a plan limit is decoded and enforced.     *)
(***************************************************************************)
\* values of a limit field that are no number: missing, null, a boolean, an
\* array, the empty string, a blank string, a string that is not numeric
UnboundedLimitValues ==
  { Undefined, JNull, JBool(TRUE), JArr(<<>>), JStr(<<>>), JStr(<<" ">>),
    JStr(<<"2", "x">>) }

\* numeric strings and the number each of them spells
NumericLimitStrings ==
  { [s |-> <<"0">>, n |-> 0], [s |-> <<"3">>, n |-> 3],
    [s |-> <<" ", "2">>, n |-> 2], [s |-> <<"1", "0">>, n |-> 10] }

\* the limits a plan document with these two fields decodes to
DecodedLimits(images_month, storage_mb) ==
  parseLimitsJson([t |-> "object",
                   o |-> [max_images_month |-> images_month, max_storage_mb |-> storage_mb]])

\* the usage the gate reads in this state, for every user
UsagesNow == { getUserCurrentMonthUsage(images, userId, now) : userId \in UserIdInputs }

\* C25: a limit field that is missing, null, or neither a number nor a
\* numeric string decodes to null, and the upload gate never rejects on that
\* dimension whatever the usage; a numeric string decodes to the number it
\* spells and is enforced exactly like that number.
C25_LimitDecoding ==
  /\ \A x \in UnboundedLimitValues :
       /\ toOptionalNumber(x) = Null
       /\ DecodedLimits(x, Undefined).maxImagesPerMonth = Null
       /\ DecodedLimits(Undefined, x).maxStorageMbPerMonth = Null
  /\ \A str \in NumericLimitStrings : toOptionalNumber(JStr(str.s)) = Some(JNum(str.n))
  /\ \A usage \in UsagesNow, sizeBytes \in UploadSizes :
       /\ \A x \in UnboundedLimitValues : \A y \in {x, JNum(0)} :
            /\ UploadLimitChecks(DecodedLimits(x, y), usage, sizeBytes).error
                 # "monthly upload limit reached for plan"
            /\ UploadLimitChecks(DecodedLimits(y, x), usage, sizeBytes).error
                 # "monthly storage limit reached for plan"
       /\ \A str \in NumericLimitStrings :
            LET byCount == UploadLimitChecks(DecodedLimits(JStr(str.s), Undefined),
                                             usage, sizeBytes)
                byBytes == UploadLimitChecks(DecodedLimits(Undefined, JStr(str.s)),
                                             usage, sizeBytes)
            IN /\ byCount = UploadLimitChecks(DecodedLimits(JNum(str.n), Undefined),
                                              usage, sizeBytes)
               /\ byBytes = UploadLimitChecks(DecodedLimits(Undefined, JNum(str.n)),
                                              usage, sizeBytes)
               /\ byCount.status = 403 <=> usage.imageCount + 1 > str.n
               /\ byBytes.status = 403 <=>
                    usage.storageBytes + sizeBytes > str.n * 1024 * 1024
  /\ \A userId \in UserIdInputs, sizeBytes \in UploadSizes :
       LET active == FindActiveSubscription(userId)
       IN ~active.null =>
            UploadGate(images, userId, sizeBytes, now) =
              UploadLimitChecks(
                DecodedLimits(PlanById(active.v.planId).limitsJson.max_images_month,
                              PlanById(active.v.planId).limitsJson.max_storage_mb),
                getUserCurrentMonthUsage(images, userId, now), sizeBytes)

\* user 1, whose plan spells its image limit "3" and has null for the storage
\* limit, has three images this month: the next upload is refused for the
\* image count, and more than a mebibyte is stored though some limits are 1
C25_Witness ==
  /\ getUserCurrentMonthUsage(images, 1, now).imageCount = 3
  /\ PlanById(FindActiveSubscription(1).v.planId).limitsJson.max_images_month = JStr(<<"3">>)
  /\ PlanById(FindActiveSubscription(1).v.planId).limitsJson.max_storage_mb = JNull
  /\ getUserCurrentMonthUsage(images, 1, now).storageBytes > 1024 * 1024
  /\ UploadGate(images, 1, 1, now) = Fail(403, "monthly upload limit reached for plan")


(***************************************************************************)
(* Properties of SpecInput: the two shapes of a request body.              *)
(***************************************************************************)
\* a body of the preferred shape alone whose intensity, when it is an array,
\* has one entry for each filter id
IsNewShape(body) ==
  /\ body.filters.t = "undefined"
  /\ body.filterId.t # "undefined"
  /\ body.intensity.t = "array" => Len(body.intensity.a) = Len(AsArray(body.filterId))

IsLegacyShape(body) ==
  /\ body.filterId.t = "undefined"
  /\ body.intensity.t = "undefined"
  /\ body.filters.t = "array"

\* the same filter ids and intensities in the other shape.  An omitted
\* intensity stays omitted when the other shape can omit it, and is written
\* 100 otherwise.
OtherShape(body) ==
  IF IsNewShape(body)
  THEN LET ids == AsArray(body.filterId)
       IN [filterId |-> Undefined, intensity |-> Undefined,
           filters |->
             JArr([i \in 1..Len(ids) |->
                    JFilterItem(ids[i],
                                IF body.intensity.t = "array" THEN body.intensity.a[i]
                                ELSE body.intensity)])]
  ELSE LET items == body.filters.a
       IN [filterId |-> JArr([i \in 1..Len(items) |-> items[i].filterId]),
           intensity |->
             IF \A i \in 1..Len(items) : items[i].intensity.t = "undefined"
             THEN Undefined
             ELSE JArr([i \in 1..Len(items) |->
                         IF items[i].intensity.t = "undefined" THEN JNum(100)
                         ELSE items[i].intensity]),
           filters |-> Undefined]

\* the intensity a body of the preferred shape gives to its i-th filter
IntensityGiven(body, i) ==
  IF body.intensity.t = "array" THEN body.intensity.a[i] ELSE body.intensity

\* C26: a request of the preferred shape and the legacy request with the
\* same filter ids and intensities (an omitted intensity being 100) normalise
\* to the same stack, are answered alike, and leave the same versions (with
\* their metadata) and the same link rows.
C26_ShapesAgree ==
  [][\A versionId \in NextVersionIds :
       (/\ ~request.done
        /\ request'.done
        /\ IsNewShape(request.body) \/ IsLegacyShape(request.body)) =>
          LET twin == OtherShape(request.body)
              mine == applyFilterHandler(imageVersions, imageFilters, request.imageId,
                                         request.body, versionId, now)
              other == applyFilterHandler(imageVersions, imageFilters, request.imageId,
                                          twin, versionId, now)
          IN /\ RequestStack(twin) = RequestStack(request.body)
             /\ other = mine
             /\ imageVersions' = other.imageVersions
             /\ imageFilters' = other.imageFilters
             /\ request'.status = other.res.status
             /\ ~RequestStack(request.body).null =>
                  \A i \in 1..Len(RequestStack(request.body).v) :
                    RequestStack(request.body).v[i].intensity =
                      (IF IsNewShape(request.body)
                       THEN IF IntensityGiven(request.body, i).t = "undefined" THEN 100
                            ELSE IntensityGiven(request.body, i).n
                       ELSE IF request.body.filters.a[i].intensity.t = "undefined" THEN 100
                            ELSE request.body.filters.a[i].intensity.n)
    ]_vars

\* a legacy stack whose first item omits its intensity was applied: its
\* links are those of { filterId: [1, 2], intensity: [100, 0] }
C26_Witness ==
  /\ request.done
  /\ request.status = 201
  /\ request.body.filters = JArr(<<JFilterItem(JNum(1), Undefined), JFilterItem(JNum(2), JNum(0))>>)
  /\ OtherShape(request.body).intensity = JArr(<<JNum(100), JNum(0)>>)
  /\ { [filterId |-> r.filterId, intensity |-> r.intensity] : r \in imageFilters }
       = { [filterId |-> 1, intensity |-> 100], [filterId |-> 2, intensity |-> 0] }


(***************************************************************************)
(* Properties of Spec: what an edit of one kind does to the links of the   *)
(* other kind.                                                             *)
(***************************************************************************)
\* C27: an edit of one kind does not change the active links of the other
\* kind: a successful applyFilters leaves what getLatestWatermarksForImage
\* returns for the image as it was, and a successful applyWatermark leaves
\* what getLatestFiltersForImage returns for the image as it was.
C27_EditKeepsLinksOfOtherKind ==
  [][Len(editLog') = Len(editLog) + 1 =>
       LET e == editLog'[Len(editLog')]
       IN IF e.kind = "filters"
          THEN \A before \in LatestByCreatedAt(imageVersions, e.imageId),
                  after \in LatestByCreatedAt(imageVersions', e.imageId) :
                 getLatestWatermarksForImage(imageVersionWatermarks', after)
                   = getLatestWatermarksForImage(imageVersionWatermarks, before)
          ELSE getLatestFiltersForImage(imageVersions', imageFilters', e.imageId)
                 = getLatestFiltersForImage(imageVersions, imageFilters, e.imageId)
    ]_vars


(***************************************************************************)
(* SpecSub: createUserProfile, setUserActivePlan and fakeCheckout on two   *)
(* connections.  The transactions of setUserActivePlan and fakeCheckout    *)
(* run statement by statement under read committed, as in SpecTx: an       *)
(* updateMany sees the rows committed when it starts, waits for a row      *)
(* another transaction has updated and not yet committed, and then takes   *)
(* the row as that transaction left it; the insert is invisible to the     *)
(* other connection until the commit.  tx[p] holds the rows the updateMany *)
(* of connection p found (targets) and the rows it has updated (cancelled).*)
(***************************************************************************)
MaxSubChanges == 3   \* subscriptions created in one behaviour of SpecSub
MaxPayments == 2     \* payments recorded in one behaviour of SpecSub

SubUserIds == {1, 5}

\* plan 9 does not exist
SubPlanIds == {2, 3, 9}

\* input.planId of fakeCheckout: a plan id, or missing
CheckoutPlanIds == { Some(planId) : planId \in SubPlanIds } \cup {Null}

\* what simulateCardDecision answers for the card of the request
CardDecisions == { [ok |-> TRUE], [ok |-> FALSE, reason |-> "card_declined"] }

\* input.amount of fakeCheckout: given (and well formed) or missing
CheckoutAmounts == { Some(1), Null }

SubAnswered(reason) == [pc |-> "answered", reason |-> reason]

SubActive(p) == tx[p].pc \in {"cancel", "cancelWait", "insert"}

\* the committed rows another connection has updated and not yet committed
SubLockedByOthers(p) ==
  UNION { tx[q].cancelled : q \in { r \in Procs \ {p} : SubActive(r) } }

\* createUserProfile: findUnique({ id: 1 }) ?? findUnique({ name: "Free" })
DefaultPlan ==
  IF \E p \in SubscriptionPlans : p.id = 1
  THEN Some(CHOOSE p \in SubscriptionPlans : p.id = 1)
  ELSE IF \E p \in SubscriptionPlans : p.name = "Free"
       THEN Some(CHOOSE p \in SubscriptionPlans : p.name = "Free")
  ELSE Null

\* the row tx.subscription.create inserts
CreatedSubscription(subs, userId, plan, ts) ==
  [id |-> Cardinality(subs) + 1, userId |-> userId, planId |-> plan.id,
   status |-> "active", createdAt |-> ts, currentPeriodStart |-> ts,
   currentPeriodEnd |-> addPeriod(ts, plan.period)]

\* createUserProfile as one transaction: it only inserts.  An id that is
\* taken fails the insert on the primary key and nothing is written.
createUserProfile(users, subs, userId, ts) ==
  IF userId \in users \/ DefaultPlan.null
  THEN [ok |-> FALSE, userProfiles |-> users, subscriptions |-> subs]
  ELSE [ok |-> TRUE, userProfiles |-> users \cup {userId},
        subscriptions |-> subs \cup {CreatedSubscription(subs, userId, DefaultPlan.v, ts)}]

subframe == <<images, uploads, overlapped, request, editLog, dbvars, usedVersionIds,
              placementSeq, subscriptionPlanFilters>>

\* room for one more subscription, counting the transactions under way
SubRoom ==
  Cardinality(subscriptions) + Cardinality({ p \in Procs : SubActive(p) })
    < Cardinality(Subscriptions) + MaxSubChanges

CreateUserProfile(userId) ==
  /\ SubRoom
  /\ LET out == createUserProfile(userProfiles, subscriptions, userId, now)
     IN /\ userProfiles' = out.userProfiles
        /\ subscriptions' = out.subscriptions
  /\ UNCHANGED <<payments, now, tx, subframe>>

\* setUserActivePlan, lines 26-35: the transaction begins and reads the user
\* and the plan
SubBeginSetPlan(p, userId, planId) ==
  /\ tx[p].pc \in {"idle", "answered"}
  /\ SubRoom
  /\ tx' = [tx EXCEPT ![p] =
              IF userId \notin userProfiles THEN SubAnswered("USER_NOT_FOUND")
              ELSE IF ~\E plan \in SubscriptionPlans : plan.id = planId
                   THEN SubAnswered("PLAN_NOT_FOUND")
              ELSE [pc |-> "cancel", op |-> "setUserActivePlan", userId |-> userId,
                    planId |-> planId, ts |-> now, targets |-> {}, cancelled |-> {}]]
  /\ UNCHANGED <<subscriptions, userProfiles, payments, now, subframe>>

\* the row prisma.payment.create inserts
CreatedPayment(userId, subscriptionId, status) ==
  [id |-> Cardinality(payments) + 1, userId |-> userId,
   subscriptionId |-> subscriptionId, status |-> status]

\* fakeCheckout up to the transaction: the user, the card decision, the plan
\* and the amount are looked at outside any transaction; a declined card
\* records a failed payment and returns; an accepted card without a plan
\* records the payment alone
FakeCheckout(p, userId, planId, decision, amount) ==
  /\ tx[p].pc \in {"idle", "answered"}
  /\ SubRoom
  /\ Cardinality(payments) < MaxPayments
  /\ LET planMissing == ~planId.null /\ ~\E plan \in SubscriptionPlans : plan.id = planId.v
         thrown == IF userId \notin userProfiles THEN "USER_NOT_FOUND"
                   ELSE IF planMissing THEN "PLAN_NOT_FOUND"
                   ELSE IF amount.null /\ planId.null THEN "AMOUNT_REQUIRED"
                   ELSE "none"
     IN IF thrown # "none"
        THEN /\ tx' = [tx EXCEPT ![p] = SubAnswered(thrown)]
             /\ UNCHANGED payments
        ELSE IF ~decision.ok
        THEN /\ payments' = payments \cup {CreatedPayment(userId, Null, "failed")}
             /\ tx' = [tx EXCEPT ![p] = SubAnswered(decision.reason)]
        ELSE IF planId.null
        THEN /\ payments' = payments \cup {CreatedPayment(userId, Null, "succeeded")}
             /\ tx' = [tx EXCEPT ![p] = SubAnswered("ok")]
        ELSE /\ tx' = [tx EXCEPT ![p] =
                         [pc |-> "cancel", op |-> "fakeCheckout", userId |-> userId,
                          planId |-> planId.v, ts |-> now, targets |-> {},
                          cancelled |-> {}]]
             /\ UNCHANGED payments
  /\ UNCHANGED <<subscriptions, userProfiles, now, subframe>>

\* the committed rows updateMany({ where: { userId, status: "active" } }) finds
SubActiveIds(userId) ==
  { s.id : s \in { r \in subscriptions : r.userId = userId /\ r.status = "active" } }

\* tx.subscription.updateMany begins: it updates the rows it finds, unless
\* one of them is held by the other connection
SubCancel(p) ==
  /\ tx[p].pc = "cancel"
  /\ LET targets == SubActiveIds(tx[p].userId)
     IN tx' = [tx EXCEPT ![p] =
                 [tx[p] EXCEPT
                    !.targets = targets,
                    !.cancelled = IF targets \cap SubLockedByOthers(p) = {}
                                  THEN targets ELSE {},
                    !.pc = IF targets \cap SubLockedByOthers(p) = {}
                           THEN "insert" ELSE "cancelWait"]]
  /\ UNCHANGED <<subscriptions, userProfiles, payments, now, subframe>>

\* the waiting updateMany goes on once the other transaction has ended: of
\* the rows it found, it updates those that are still active
SubCancelResume(p) ==
  /\ tx[p].pc = "cancelWait"
  /\ tx[p].targets \cap SubLockedByOthers(p) = {}
  /\ tx' = [tx EXCEPT ![p] =
              [tx[p] EXCEPT !.cancelled = tx[p].targets \cap SubActiveIds(tx[p].userId),
                            !.pc = "insert"]]
  /\ UNCHANGED <<subscriptions, userProfiles, payments, now, subframe>>

\* tx.subscription.create (and tx.payment.create of fakeCheckout), the
\* callback returns and the transaction commits
SubCommit(p) ==
  /\ tx[p].pc = "insert"
  /\ LET t == tx[p]
         created == CreatedSubscription(subscriptions, t.userId, PlanById(t.planId), t.ts)
     IN /\ subscriptions' =
             { IF s.id \in t.cancelled
               THEN [s EXCEPT !.status = "cancelled", !.currentPeriodEnd = t.ts]
               ELSE s : s \in subscriptions } \cup {created}
        /\ payments' = IF t.op = "fakeCheckout"
                       THEN payments \cup {CreatedPayment(t.userId, Some(created.id), "succeeded")}
                       ELSE payments
  /\ tx' = [tx EXCEPT ![p] = SubAnswered("ok")]
  /\ now' = now + 1
  /\ UNCHANGED <<userProfiles, subframe>>

NextSub ==
  \/ \E userId \in SubUserIds : CreateUserProfile(userId)
  \/ \E p \in Procs, userId \in SubUserIds, planId \in SubPlanIds :
       SubBeginSetPlan(p, userId, planId)
  \/ \E p \in Procs, userId \in SubUserIds, planId \in CheckoutPlanIds,
        decision \in CardDecisions, amount \in CheckoutAmounts :
       FakeCheckout(p, userId, planId, decision, amount)
  \/ \E p \in Procs : SubCancel(p)
  \/ \E p \in Procs : SubCancelResume(p)
  \/ \E p \in Procs : SubCommit(p)

SpecSub == Init /\ [][NextSub]_vars

(***************************************************************************)
(* Properties of SpecSub.                                                  *)
(***************************************************************************)
ActiveSubscriptionsOf(userId) ==
  { s \in subscriptions : s.userId = userId /\ s.status = "active" }

\* C28: a user who was created by createUserProfile, or who had one active
\* subscription at the start, has exactly one subscription with status
\* active after any sequence or interleaving of setUserActivePlan and
\* fakeCheckout calls.
C28_ExactlyOneActiveSubscription ==
  \A userId \in SubUserIds \cap userProfiles :
    Cardinality(ActiveSubscriptionsOf(userId)) = 1


(***************************************************************************)
(* Properties of Spec: the sort orders of the placements of a version.     *)
(***************************************************************************)
\* C29: the placements of the latest version of an image (of any version, in
\* fact) have pairwise distinct sort orders, and the placement a successful
\* applyWatermark adds has a sort order strictly greater than that of every
\* placement carried forward with it, also after removals have freed lower
\* sort orders.
C29_SortOrdersDistinctAndGrowing ==
  [][/\ \A v \in imageVersions' :
          \A p, q \in PlacementsOf(imageVersionWatermarks', v.id) :
            p # q => p.sortOrder # q.sortOrder
     /\ (Len(editLog') = Len(editLog) + 1 /\ editLog'[Len(editLog')].kind = "watermark") =>
          LET e == editLog'[Len(editLog')]
              placed == PlacementsOf(imageVersionWatermarks', e.versionId)
              created == { p \in placed : \A q \in placed : p.id >= q.id }
              carried == placed \ created
          IN /\ Cardinality(created) = 1
             /\ \A c \in created :
                  /\ c.watermarkId = e.ids[1]
                  /\ \A q \in carried : c.sortOrder > q.sortOrder
             /\ \A latestVersion \in LatestByCreatedAt(imageVersions, e.imageId) :
                  { [watermarkId |-> q.watermarkId, sortOrder |-> q.sortOrder] : q \in carried }
                    = { [watermarkId |-> q.watermarkId, sortOrder |-> q.sortOrder] :
                          q \in SeqToSet(PreviousPlacements(imageVersionWatermarks,
                                                            latestVersion)) }
    ]_vars

\* two placements were applied, the one with sort order 0 was removed, and a
\* third was applied: the latest version holds sort orders 1 and 2
C29_Witness ==
  \E v \in LatestIn(imageVersions, 1) :
    { p.sortOrder : p \in PlacementsOf(imageVersionWatermarks, v.id) } = {1, 2}


(***************************************************************************)
(* Properties of Spec: the order of the links a filter edit returns.       *)
(***************************************************************************)
\* C30: the links applyFilters returns, and the links
\* getLatestFiltersForImage returns after it, are listed in request order
\* (ascending sortOrder), so the first returned link, exposed as `link`, is
\* the first filter of the requested stack whatever the numeric order of the
\* filter ids.
C30_LinksInRequestOrder ==
  \A imageId \in ImageIdInputs, body \in EditBodies, versionId \in NextVersionIds :
    LET out == applyFilterHandler(imageVersions, imageFilters, imageId, body, versionId, now)
    IN out.res.status = 201 =>
         LET stack == RequestStack(body).v
             latest == getLatestFiltersForImage(out.imageVersions, out.imageFilters, imageId)
         IN /\ Len(out.res.links) = Len(stack)
            /\ \A i \in 1..Len(stack) :
                 /\ out.res.links[i].filterId = stack[i].filterId
                 /\ out.res.links[i].sortOrder = i - 1
            /\ out.res.link = Some(out.res.links[1])
            /\ out.res.link.v.filterId = stack[1].filterId
            /\ latest = out.res.links

====
